---- MODULE Spec2Model ----
(***************************************************************************)
(* Verification model of the Salesforce integration repository:            *)
(*   handlers/do_something.py          the Lambda handler (asyncio)         *)
(*   scripts/create_github_oidc_role.py the IAM role / policy script        *)
(*   scripts/create_repos_and_branches.py  the GitHub provisioning CLI      *)
(*   integration/config/project_settings.py  settings resolution           *)
(*   tests/conftest.py, integration/utils/aws.py  the test fixture         *)
(*   infrastructure/constructs/sqs.py, stacks/main.py  the queue construct *)
(*   integration/config/utils.py        get_env_value                      *)
(*   integration/config/xray_config.py  the patched httpx transport        *)
(*   integration/config/sentry_config.py  before_send                      *)
(* Each subsystem has its own variables and its own specification; the     *)
(* variables of the other subsystems stay at their idle values.            *)
(***************************************************************************)
EXTENDS Integers, Sequences, FiniteSets, TLC

VARIABLES
    \* ---- handlers/do_something.py -------------------------------------
    hpc,             \* position of the coroutine async_handler
    invocations,     \* number of handler() calls made so far
    bodyErrs,        \* number of exceptions the try body raised (0: none)
    error_message,   \* execution.error_message
    errorLogs,       \* number of execution.logger.error calls
    success,         \* execution.success
    pendingExc,      \* exception in flight while the finally block runs
    mustCancel,      \* a cancellation of the main task has been requested
    cancels,         \* number of cancellations requested in this invocation
    task,            \* state of the task running execution.create_all()
    taskSteps,       \* await points of create_all() the task has passed
    taskStarts,      \* number of asyncio.create_task calls in this invocation
    recorded,        \* error_message as it stood when the task was created
    outcome,         \* what handler()'s caller observes
    \* ---- scripts/create_github_oidc_role.py ----------------------------
    opc,             \* position of main()
    oruns,           \* number of times main() has been started
    roleExists,      \* IAM: the role ROLE_NAME exists
    policyExists,    \* IAM: the policy POLICY_NAME exists
    attached,        \* IAM: the policy is attached to the role
    policy_arn,      \* main()'s local policy_arn
    attempt,         \* wait_for_policy's loop variable
    polls,           \* get_policy calls wait_for_policy has made in this run
    roleStep,        \* how this run got past the role step
    arnSource,       \* how this run obtained policy_arn: created,
                     \* confirmed by wait_for_policy, or looked up
    attachCalls,     \* attach_role_policy calls made in this run
    verified,        \* outcome of the attachment verification of this run
    runFailed,       \* this run met an error other than EntityAlreadyExists
    startState,      \* <<roleExists, policyExists, attached>> when the run began
    oresult,         \* how main() ended
    \* ---- scripts/create_repos_and_branches.py: branch creation ---------
    gpc,             \* position of the running command
    gcmd,            \* the command: create_branches / create_repo_with_branches
    gruns,           \* commands started so far
    repoExists,      \* GitHub: the repository exists in the organization
    refs,            \* GitHub: branch -> SHA of refs/heads/<branch> (0: no ref)
    branches,        \* the --branches option as given (raw items)
    branch_list,     \* the parsed list of requested branches
    idx,             \* index of the loop over branch_list
    source_sha,      \* source_ref.object.sha
    refsAtStart,     \* refs when the command began
    createCalls,     \* create_git_ref calls of this command
    foundRefs,       \* branches whose get_git_ref lookup succeeded
    sameBranches,    \* the --branches option is that of the previous command
    gresult,         \* the command's return value
    \* ---- scripts/create_repos_and_branches.py: delete_repo --------------
    dpc,             \* position of delete_repo
    druns,           \* delete_repo commands started so far
    orgRepos,        \* GitHub: names of the repositories of the organization
    orgAtStart,      \* orgRepos when the command began
    repo_name,       \* --repo-name
    confirm,         \* --confirm / --no-confirm
    confirmation,    \* the text typed at the prompt (None: not asked)
    repoFound,       \* organization.get_repo(repo_name) returned the repository
    deleteCalls,     \* repositories repo.delete() was called on by this command
    dresult,         \* the command's return value
    \* ---- integration/config/project_settings.py -----------------------
    spc,             \* the field Settings() validates next
    environ,         \* the values the environment / .env files supply
    data,            \* info.data: the fields validated so far
    declared,        \* the resource names MainStack declares (none before synthesis)
    \* ---- tests/conftest.py, integration/utils/aws.py --------------------
    fpc,             \* position of the fixture mock_aws_resources
    testNo,          \* number of the test being set up, run or torn down
    mockId,          \* the moto mock that is active (0: none)
    clients,         \* BOTO3_CLIENTS._<service>_client: 0 for None, else the
                     \* mock in which boto3.client created the client
    mockBuckets,     \* buckets of the active mock
    mockQueues,      \* queues of the active mock
    fsteps,          \* what the fixture has done for the current test
    uses,            \* client uses: the test, the service, the client's mock
    fsettings,       \* the settings object the fixture reads
    \* ---- infrastructure/constructs/sqs.py, stacks/main.py ---------------
    qpc,             \* "args": about to construct; "built"; "refused"
    qargs,           \* the arguments of QueueWithDLQ(...)
    construct,       \* the QueueWithDLQ object: dead_letter_queue and queue
    msgs,            \* the messages sent to the queue: where each one is and
                     \* how often it has been received
    \* ---- scripts/create_repos_and_branches.py: the setup functions ---------
    apc,             \* position of setup_repository_access
    all_teams,       \* slugs of the teams get_teams() returned
    access_config,   \* the access configuration in use
    aidx,            \* index of the loop over access_config
    granted,         \* names access was granted to
    accessFailed,    \* names whose entry ended without access
    aresult,         \* what setup_repository_access returned, if it has
    ppc,             \* position of the command around setup_branch_protection
    pcmd,            \* the command that calls the setup functions
    defaultBranches, \* --branches was left at its default
    defaultProtection, \* --protection-config was not given
    repoBranches,    \* GitHub: the branches of the repository
    createdBranches, \* branches the command's branch loop created
    branches_config, \* the protection configuration in use
    pidx,            \* index of the loop over branches_config
    skipped,         \* configured branches skipped as not found
    editCalls,       \* branches edit_protection was called on
    protected,       \* branches edit_protection returned for
    reviewCalls,     \* branches edit_required_pull_request_reviews was called on
    reviewed,        \* branches that call returned for
    protFailed,      \* branches whose protection raised an error
    presult,         \* what setup_branch_protection returned, if it has
    \* ---- scripts/create_repos_and_branches.py: set_repo_variables ----------
    vpc,             \* position of set_repo_variables
    vcalls,          \* set_repo_variables calls made so far
    variables,       \* the dictionary given: name -> value
    vidx,            \* index of the loop over the dictionary
    repoVars,        \* GitHub: the Actions variables of the repository
    createCalled,    \* names create_variable was called for in this call
    updateCalled,    \* names the update was tried for in this call
    printedFor,      \* names an error was printed for in this call
    \* ---- integration/config/utils.py: get_env_value ------------------------
    os_environ,      \* os.environ at the key
    env_files,       \* the two ENV_FILES files at the key
    cache,           \* the functools cache of get_env_value at the key
    envCalls,        \* get_env_value calls made so far
    got,             \* what the last get_env_value call returned
    resolved,        \* what Settings() took for the field
    \* ---- integration/config/xray_config.py: handle_async_request -----------
    xpc,             \* position of handle_async_request, per request
    subsegment,      \* the subsegment of each request: None, open or ended
    aexits,          \* __aexit__ calls made for each request
    \* ---- integration/config/sentry_config.py: before_send ------------------
    sentryLog,       \* the events passed to before_send and what it returned
    \* ---- Settings.SENTRY_DSN and configure_sentry --------------------------
    dsnSettings,     \* the settings object (ENVIRONMENT, PROJECT_SLUG)
    dsnEnvValue,     \* what get_env_value("SENTRY_DSN") returns
    secretStore,     \* Secrets Manager: secret name -> dictionary
    dsnReads,        \* reads of the property / calls of configure_sentry so far
    sentryDsn,       \* what the last read of the property gave
    secretCalls,     \* the names get_secret was called with
    sentryInits,     \* the sentry_sdk.init calls made
    \* ---- Boto3Clients: the client cache ------------------------------------
    cached,          \* the four _<service>_client attributes (0: None)
    sharedConfig,    \* self.config
    clientsMade,     \* clients boto3.client has created so far
    callsSinceReset, \* boto3.client calls per service since the last reset()
    returned,        \* clients each property returned since the last reset()
    retired,         \* clients returned before the last reset()
    resets,          \* calls of reset() so far
    lastCall,        \* the last method or property used
    configBefore     \* self.config before the last call

hvars == <<hpc, invocations, bodyErrs, error_message, errorLogs, success,
           pendingExc, mustCancel, cancels, task, taskSteps, taskStarts,
           recorded, outcome>>

ovars == <<opc, oruns, roleExists, policyExists, attached, policy_arn, attempt,
           polls, roleStep, arnSource, attachCalls, verified, runFailed,
           startState, oresult>>

gvars == <<gpc, gcmd, gruns, repoExists, refs, branches, branch_list, idx,
           source_sha, refsAtStart, createCalls, foundRefs, sameBranches,
           gresult>>

dvars == <<dpc, druns, orgRepos, orgAtStart, repo_name, confirm, confirmation,
           repoFound, deleteCalls, dresult>>

svars == <<spc, environ, data, declared>>

fvars == <<fpc, testNo, mockId, clients, mockBuckets, mockQueues, fsteps, uses,
           fsettings>>

qvars == <<qpc, qargs, construct, msgs>>

pvars == <<apc, all_teams, access_config, aidx, granted, accessFailed,
           aresult, ppc, pcmd, defaultBranches, defaultProtection,
           repoBranches, createdBranches, branches_config, pidx, skipped,
           editCalls, protected, reviewCalls, reviewed, protFailed, presult>>

vvars == <<vpc, vcalls, variables, vidx, repoVars, createCalled,
           updateCalled, printedFor>>

evars == <<os_environ, env_files, cache, envCalls, got, resolved>>

xvars == <<xpc, subsegment, aexits>>

yvars == <<sentryLog>>

zvars == <<dsnSettings, dsnEnvValue, secretStore, dsnReads, sentryDsn,
           secretCalls, sentryInits>>

bvars == <<cached, sharedConfig, clientsMade, callsSinceReset, returned, retired,
           resets, lastCall, configBefore>>

vars == <<hvars, ovars, gvars, dvars, svars, fvars, qvars, pvars, vvars,
          evars, xvars, yvars, zvars, bvars>>

\* What the actions of one subsystem leave alone: the other subsystems.
othersH == <<ovars, gvars, dvars, svars, fvars, qvars, pvars, vvars, evars,
             xvars, yvars, zvars, bvars>>
othersO == <<hvars, gvars, dvars, svars, fvars, qvars, pvars, vvars, evars,
             xvars, yvars, zvars, bvars>>
othersG == <<hvars, ovars, dvars, svars, fvars, qvars, pvars, vvars, evars,
             xvars, yvars, zvars, bvars>>
othersD == <<hvars, ovars, gvars, svars, fvars, qvars, pvars, vvars, evars,
             xvars, yvars, zvars, bvars>>
othersS == <<hvars, ovars, gvars, dvars, fvars, qvars, pvars, vvars, evars,
             xvars, yvars, zvars, bvars>>
othersF == <<hvars, ovars, gvars, dvars, svars, qvars, pvars, vvars, evars,
             xvars, yvars, zvars, bvars>>
othersQ == <<hvars, ovars, gvars, dvars, svars, fvars, pvars, vvars, evars,
             xvars, yvars, zvars, bvars>>
othersP == <<hvars, ovars, gvars, dvars, svars, fvars, qvars, vvars, evars,
             xvars, yvars, zvars, bvars>>
othersV == <<hvars, ovars, gvars, dvars, svars, fvars, qvars, pvars, evars,
             xvars, yvars, zvars, bvars>>
othersE == <<hvars, ovars, gvars, dvars, svars, fvars, qvars, pvars, vvars,
             xvars, yvars, zvars, bvars>>
othersX == <<hvars, ovars, gvars, dvars, svars, fvars, qvars, pvars, vvars,
             evars, yvars, zvars, bvars>>
othersY == <<hvars, ovars, gvars, dvars, svars, fvars, qvars, pvars, vvars,
             evars, xvars, zvars, bvars>>
othersZ == <<hvars, ovars, gvars, dvars, svars, fvars, qvars, pvars, vvars,
             evars, xvars, yvars, bvars>>
othersB == <<hvars, ovars, gvars, dvars, svars, fvars, qvars, pvars, vvars,
             evars, xvars, yvars, zvars>>

(***************************************************************************)
(* Bounds of the model.                                                    *)
(***************************************************************************)
MaxErrs == 3          \* most exceptions one exception group carries
WriteSteps == 2       \* await points inside execution.create_all()
MaxInvocations == 2   \* handler() calls in one run of the model
MaxCancels == 1       \* cancellations requested during one invocation
MaxRuns == 3          \* runs of the OIDC role script
MaxCommands == 2      \* branch-creating commands run one after the other
MaxBranchItems == 2   \* items of a --branches option
MaxSha == 2           \* distinct commits the source branch points to over time
MaxDeletes == 2       \* delete_repo commands run one after the other
MaxTests == 3         \* tests of one pytest session
MaxUses == 2          \* client uses recorded in one test body
MaxReceiveCount == 3  \* largest max_receive_count a construct is given
MaxMessages == 2      \* messages sent to a queue
MaxVarCalls == 2      \* set_repo_variables calls made one after the other
MaxEnvCalls == 2      \* get_env_value calls for one key
MaxRequests == 3      \* httpx requests in flight at once
MaxEvents == 2        \* events passed to before_send
MaxReads == 2         \* reads of one client property between two resets
MaxClientObjects == 4 \* clients boto3.client creates in one process
MaxResets == 2        \* calls of Boto3Clients.reset()
MaxDsnReads == 2      \* reads of settings.SENTRY_DSN / calls of configure_sentry

(***************************************************************************)
(* handlers/do_something.py                                                *)
(***************************************************************************)
None == "None"

\* execution_soft_errors: list[str] = []   (never appended to)
execution_soft_errors == << >>

HIdle ==
    /\ hpc = "idle"
    /\ invocations = 0
    /\ bodyErrs = 0
    /\ error_message = None
    /\ errorLogs = 0
    /\ success = None
    /\ pendingExc = None
    /\ mustCancel = FALSE
    /\ cancels = 0
    /\ task = "none"
    /\ taskSteps = 0
    /\ taskStarts = 0
    /\ recorded = None
    /\ outcome = None

\* handler(): asyncio.run(async_handler(event, context)) starts a fresh loop
\* and a fresh coroutine, which runs up to the try statement.
Invoke ==
    /\ hpc \in {"idle", "closed"}
    /\ invocations < MaxInvocations
    /\ invocations' = invocations + 1
    /\ hpc' = "body"
    /\ bodyErrs' = 0
    /\ error_message' = None
    /\ errorLogs' = 0
    /\ success' = None
    /\ pendingExc' = None
    /\ mustCancel' = FALSE
    /\ cancels' = 0
    /\ task' = "none"
    /\ taskSteps' = 0
    /\ taskStarts' = 0
    /\ recorded' = None
    /\ outcome' = None
    /\ UNCHANGED othersH

\* The try body runs to its end (it holds no await).
BodyReturn ==
    /\ hpc = "body"
    /\ IF Len(execution_soft_errors) > 0
          THEN /\ error_message' = <<"soft", Len(execution_soft_errors)>>
               /\ success' = FALSE
          ELSE /\ error_message' = error_message
               /\ success' = TRUE
    /\ hpc' = "finally"
    /\ UNCHANGED <<invocations, bodyErrs, errorLogs, pendingExc, mustCancel,
                   cancels, task, taskSteps, taskStarts, recorded, outcome>>
    /\ UNCHANGED othersH

\* The try body raises: one exception, or a group of n exceptions.
BodyRaise(n) ==
    /\ hpc = "body"
    /\ bodyErrs' = n
    /\ hpc' = "except"
    /\ UNCHANGED <<invocations, error_message, errorLogs, success, pendingExc,
                   mustCancel, cancels, task, taskSteps, taskStarts, recorded,
                   outcome>>
    /\ UNCHANGED othersH

AggregatedMessage_AlwaysCount(n) == <<"failed", n>>

\* match len(eg.exceptions): the message attached to the execution record.
AggregatedMessage(n) ==
    IF n = 1 THEN <<"exception", 1>> ELSE <<"failed", n>>

\* The number of execution.logger.error calls the except* block makes.
LoggedErrors(n) == IF n = 1 THEN 0 ELSE n

\* What leaves the except* block: "raise eg".
ExceptRaises == "body"

\* except* Exception as eg: ... raise eg
ExceptStar ==
    /\ hpc = "except"
    /\ error_message' = AggregatedMessage(bodyErrs)
    /\ errorLogs' = LoggedErrors(bodyErrs)
    /\ pendingExc' = ExceptRaises
    /\ hpc' = "finally"
    /\ UNCHANGED <<invocations, bodyErrs, success, mustCancel, cancels, task,
                   taskSteps, taskStarts, recorded, outcome>>
    /\ UNCHANGED othersH

\* Task.cancel() on the main task (asyncio.run's SIGINT handler): it takes
\* effect at the next await of the coroutine that suspends.
Cancel ==
    /\ hpc \in {"body", "except", "finally", "shield"}
    /\ cancels < MaxCancels
    /\ cancels' = cancels + 1
    /\ mustCancel' = TRUE
    /\ UNCHANGED <<hpc, invocations, bodyErrs, error_message, errorLogs,
                   success, pendingExc, task, taskSteps, taskStarts, recorded,
                   outcome>>
    /\ UNCHANGED othersH

StartsTaskAt_AlsoInExcept == {"except", "finally"}

\* The positions of the coroutine at which the finally block creates the task.
StartsTaskAt == {"finally"}

\* finally: task = asyncio.create_task(execution.create_all()), then the
\* coroutine suspends in "await asyncio.shield(task)".
FinallyStart ==
    /\ hpc \in StartsTaskAt
    /\ task' = "running"
    /\ taskSteps' = 0
    /\ taskStarts' = taskStarts + 1
    /\ recorded' = error_message
    /\ hpc' = IF hpc = "finally" THEN "shield" ELSE hpc
    /\ UNCHANGED <<invocations, bodyErrs, error_message, errorLogs, success,
                   pendingExc, mustCancel, cancels, outcome>>
    /\ UNCHANGED othersH

\* The event loop gives the task a turn while the main task is suspended in
\* the await; once the main task is done, run_until_complete stops the loop.
LoopRunsTask == hpc = "shield"

\* The task passes one await point of create_all(); after the last one the
\* record is written.
TaskStep ==
    /\ task = "running"
    /\ LoopRunsTask
    /\ taskSteps < WriteSteps
    /\ taskSteps' = taskSteps + 1
    /\ task' = IF taskSteps + 1 = WriteSteps THEN "done" ELSE "running"
    /\ UNCHANGED <<hpc, invocations, bodyErrs, error_message, errorLogs,
                   success, pendingExc, mustCancel, cancels, taskStarts,
                   recorded, outcome>>
    /\ UNCHANGED othersH

\* create_all() raises (the Salesforce API refuses the record).
TaskFail ==
    /\ task = "running"
    /\ LoopRunsTask
    /\ task' = "failed"
    /\ UNCHANGED <<hpc, invocations, bodyErrs, error_message, errorLogs,
                   success, pendingExc, mustCancel, cancels, taskSteps,
                   taskStarts, recorded, outcome>>
    /\ UNCHANGED othersH

\* await asyncio.shield(task) returns; the annotations are put and the
\* finally block ends, so the exception in flight (if any) goes on.
ShieldReturn ==
    /\ hpc = "shield"
    /\ ~mustCancel
    /\ task = "done"
    /\ hpc' = "exit"
    /\ outcome' = IF pendingExc = None THEN "returned" ELSE pendingExc
    /\ UNCHANGED <<invocations, bodyErrs, error_message, errorLogs, success,
                   pendingExc, mustCancel, cancels, task, taskSteps, taskStarts,
                   recorded>>
    /\ UNCHANGED othersH

\* await asyncio.shield(task) raises the exception create_all() raised: it
\* leaves the finally block in place of the exception in flight.
ShieldRaise ==
    /\ hpc = "shield"
    /\ ~mustCancel
    /\ task = "failed"
    /\ hpc' = "exit"
    /\ outcome' = "write"
    /\ UNCHANGED <<invocations, bodyErrs, error_message, errorLogs, success,
                   pendingExc, mustCancel, cancels, task, taskSteps, taskStarts,
                   recorded>>
    /\ UNCHANGED othersH

\* The cancellation is delivered at "await asyncio.shield(task)": the outer
\* future is cancelled, the shielded task is left alone, and CancelledError
\* leaves the coroutine.
ShieldCancelled ==
    /\ hpc = "shield"
    /\ mustCancel
    /\ mustCancel' = FALSE
    /\ hpc' = "exit"
    /\ outcome' = "cancelled"
    /\ UNCHANGED <<invocations, bodyErrs, error_message, errorLogs, success,
                   pendingExc, cancels, task, taskSteps, taskStarts, recorded>>
    /\ UNCHANGED othersH

\* asyncio.run ends: the main task is done, the runner cancels every task
\* still pending on the loop and closes the loop.
RunnerClose ==
    /\ hpc = "exit"
    /\ task' = IF task = "running" THEN "cancelled" ELSE task
    /\ hpc' = "closed"
    /\ UNCHANGED <<invocations, bodyErrs, error_message, errorLogs, success,
                   pendingExc, mustCancel, cancels, taskSteps, taskStarts,
                   recorded, outcome>>
    /\ UNCHANGED othersH

HStep ==
    \/ Invoke
    \/ BodyReturn
    \/ \E n \in 1..MaxErrs : BodyRaise(n)
    \/ ExceptStar
    \/ Cancel
    \/ FinallyStart
    \/ TaskStep
    \/ TaskFail
    \/ ShieldReturn
    \/ ShieldRaise
    \/ ShieldCancelled
    \/ RunnerClose


(***************************************************************************)
(* scripts/create_github_oidc_role.py                                      *)
(***************************************************************************)

\* wait_for_policy(iam_client, policy_arn, max_attempts=10, delay=2)
max_attempts == 10

OIdle ==
    /\ opc = "idle"
    /\ oruns = 0
    /\ roleExists = FALSE
    /\ policyExists = FALSE
    /\ attached = FALSE
    /\ policy_arn = None
    /\ attempt = 0
    /\ polls = 0
    /\ roleStep = "none"
    /\ arnSource = "none"
    /\ attachCalls = 0
    /\ verified = None
    /\ runFailed = FALSE
    /\ startState = <<FALSE, FALSE, FALSE>>
    /\ oresult = None

\* The ARN IAM gives the policy POLICY_NAME of the account.
PolicyArn == "arn:aws:iam::account:policy/salesforce-integration-cdk-deployment-policy"

\* main() is started (again): the IAM state is what earlier runs left.
MainStart ==
    /\ opc \in {"idle", "done"}
    /\ oruns < MaxRuns
    /\ oruns' = oruns + 1
    /\ opc' = "get_caller_identity"
    /\ policy_arn' = None
    /\ attempt' = 0
    /\ polls' = 0
    /\ roleStep' = "none"
    /\ arnSource' = "none"
    /\ attachCalls' = 0
    /\ verified' = None
    /\ runFailed' = FALSE
    /\ startState' = <<roleExists, policyExists, attached>>
    /\ oresult' = None
    /\ UNCHANGED <<roleExists, policyExists, attached>>
    /\ UNCHANGED othersO

\* "return" after an error was printed: main() ends early.
Return(how) ==
    /\ opc' = "done"
    /\ oresult' = how

\* An answer of AWS that is an error other than EntityAlreadyExists (or the
\* NoSuchEntity that wait_for_policy polls through).
IsFailure(err) == err \notin {"none", "ok", "EntityAlreadyExists", "NoSuchEntity"}

\* account_id = sts_client.get_caller_identity()["Account"]
GetCallerIdentity(err) ==
    /\ opc = "get_caller_identity"
    /\ runFailed' = (runFailed \/ IsFailure(err))
    /\ IF err = "none"
          THEN /\ opc' = "create_role"
               /\ UNCHANGED oresult
          ELSE Return("returned")
    /\ UNCHANGED <<oruns, roleExists, policyExists, attached, policy_arn,
                   attempt, polls, roleStep, arnSource, attachCalls, verified,
                   startState>>
    /\ UNCHANGED othersO

\* What IAM answers to create_role / create_policy for an entity that exists
\* or not ("other" is any other ClientError).
CreateAnswers(exists) ==
    IF exists THEN {"EntityAlreadyExists", "other"} ELSE {"none", "other"}

RoleErrorEndsMain_AnyError(code) == TRUE

\* except ClientError as e: whether the error code of create_role ends main().
RoleErrorEndsMain(code) == code # "EntityAlreadyExists"

\* iam_client.create_role(...) and the except clause that follows it.
CreateRole(err) ==
    /\ opc = "create_role"
    /\ runFailed' = (runFailed \/ IsFailure(err))
    /\ err \in CreateAnswers(roleExists)
    /\ IF err = "none"
          THEN /\ roleExists' = TRUE
               /\ opc' = "wait_for_role"
               /\ UNCHANGED <<roleStep, oresult>>
          ELSE IF RoleErrorEndsMain(err)
                  THEN /\ Return("returned")
                       /\ UNCHANGED <<roleExists, roleStep>>
                  ELSE /\ opc' = "create_policy"
                       /\ roleStep' = "exists"
                       /\ UNCHANGED <<roleExists, oresult>>
    /\ UNCHANGED <<oruns, policyExists, attached, policy_arn, attempt, polls,
                   arnSource, attachCalls, verified, startState>>
    /\ UNCHANGED othersO

\* wait_for_role: the waiter succeeds (True), a ClientError is caught (False),
\* or the waiter's WaiterError, which is no ClientError, leaves main().
WaitForRole(res) ==
    /\ opc = "wait_for_role"
    /\ runFailed' = (runFailed \/ IsFailure(res))
    /\ CASE res = "ok" ->
                /\ opc' = "create_policy"
                /\ roleStep' = "confirmed"
                /\ UNCHANGED oresult
         [] res = "ClientError" ->
                /\ Return("returned")
                /\ UNCHANGED roleStep
         [] res = "WaiterError" ->
                /\ Return("raised")
                /\ UNCHANGED roleStep
    /\ UNCHANGED <<oruns, roleExists, policyExists, attached, policy_arn,
                   attempt, polls, arnSource, attachCalls, verified, startState>>
    /\ UNCHANGED othersO

PolicyErrorEndsMain_Never(code) == FALSE

\* except ClientError as e: whether the error code of create_policy ends main().
PolicyErrorEndsMain(code) == code # "EntityAlreadyExists"

\* iam_client.create_policy(...) and the except clause that follows it.
CreatePolicy(err) ==
    /\ opc = "create_policy"
    /\ runFailed' = (runFailed \/ IsFailure(err))
    /\ err \in CreateAnswers(policyExists)
    /\ IF err = "none"
          THEN /\ policyExists' = TRUE
               /\ policy_arn' = PolicyArn
               /\ arnSource' = "created"
               /\ attempt' = 0
               /\ opc' = "wait_for_policy"
               /\ UNCHANGED oresult
          ELSE IF PolicyErrorEndsMain(err)
                  THEN /\ Return("returned")
                       /\ UNCHANGED <<policyExists, policy_arn, arnSource, attempt>>
                  ELSE /\ opc' = "get_policy"
                       /\ UNCHANGED <<policyExists, policy_arn, arnSource,
                                      attempt, oresult>>
    /\ UNCHANGED <<oruns, roleExists, attached, polls, roleStep, attachCalls,
                   verified, startState>>
    /\ UNCHANGED othersO

PollsAgain_OneMore(n) == n <= max_attempts

\* wait_for_policy: whether the loop makes another get_policy call.
PollsAgain(n) == n < max_attempts

\* One iteration of wait_for_policy's loop: get_policy succeeds (return
\* True), fails with NoSuchEntity (sleep, continue) or fails otherwise (raise,
\* caught by the except clause of create_policy, which returns).
WaitForPolicyPoll(err) ==
    /\ opc = "wait_for_policy"
    /\ runFailed' = (runFailed \/ IsFailure(err))
    /\ PollsAgain(attempt)
    /\ polls' = polls + 1
    /\ CASE err = "none" ->
                /\ opc' = "attach_role_policy"
                /\ arnSource' = "confirmed"
                /\ UNCHANGED <<attempt, oresult>>
         [] err = "NoSuchEntity" ->
                /\ attempt' = attempt + 1
                /\ UNCHANGED <<opc, oresult, arnSource>>
         [] err = "other" ->
                /\ Return("returned")
                /\ UNCHANGED <<attempt, arnSource>>
    /\ UNCHANGED <<oruns, roleExists, policyExists, attached, policy_arn,
                   roleStep, attachCalls, verified, startState>>
    /\ UNCHANGED othersO

\* wait_for_policy falls out of its loop and returns False: main() returns.
WaitForPolicyGivesUp ==
    /\ opc = "wait_for_policy"
    /\ runFailed' = TRUE
    /\ ~PollsAgain(attempt)
    /\ Return("returned")
    /\ UNCHANGED <<oruns, roleExists, policyExists, attached, policy_arn,
                   attempt, polls, roleStep, arnSource, attachCalls, verified,
                   startState>>
    /\ UNCHANGED othersO

\* EntityAlreadyExists on create_policy: get_policy looks the existing ARN up.
GetExistingPolicy(err) ==
    /\ opc = "get_policy"
    /\ runFailed' = (runFailed \/ IsFailure(err))
    /\ IF err = "none"
          THEN /\ policy_arn' = PolicyArn
               /\ arnSource' = "lookup"
               /\ opc' = "attach_role_policy"
               /\ UNCHANGED oresult
          ELSE /\ Return("returned")
               /\ UNCHANGED <<policy_arn, arnSource>>
    /\ UNCHANGED <<oruns, roleExists, policyExists, attached, attempt, polls,
                   roleStep, attachCalls, verified, startState>>
    /\ UNCHANGED othersO

\* iam_client.attach_role_policy(RoleName=ROLE_NAME, PolicyArn=policy_arn)
AttachRolePolicy(err) ==
    /\ opc = "attach_role_policy"
    /\ runFailed' = (runFailed \/ IsFailure(err))
    /\ attachCalls' = attachCalls + 1
    /\ IF err = "none"
          THEN /\ attached' = TRUE
               /\ opc' = "list_attached_role_policies"
               /\ UNCHANGED oresult
          ELSE /\ Return("returned")
               /\ UNCHANGED attached
    /\ UNCHANGED <<oruns, roleExists, policyExists, policy_arn, attempt, polls,
                   roleStep, arnSource, verified, startState>>
    /\ UNCHANGED othersO

\* What main() does after the verification printed its result.
AfterVerification(found) == "completed"

\* list_attached_role_policies and the check of its answer: the answer lists
\* the policy (found) or, read before IAM has settled, does not.
VerifyAttachment(err, found) ==
    /\ opc = "list_attached_role_policies"
    /\ runFailed' = (runFailed \/ IsFailure(err))
    /\ IF err = "none"
          THEN /\ verified' = found
               /\ opc' = "done"
               /\ oresult' = AfterVerification(found)
          ELSE /\ Return("returned")
               /\ UNCHANGED verified
    /\ UNCHANGED <<oruns, roleExists, policyExists, attached, policy_arn,
                   attempt, polls, roleStep, arnSource, attachCalls, startState>>
    /\ UNCHANGED othersO

OStep ==
    \/ MainStart
    \/ \E err \in {"none", "other"} : GetCallerIdentity(err)
    \/ \E err \in {"none", "EntityAlreadyExists", "other"} : CreateRole(err)
    \/ \E res \in {"ok", "ClientError", "WaiterError"} : WaitForRole(res)
    \/ \E err \in {"none", "EntityAlreadyExists", "other"} : CreatePolicy(err)
    \/ \E err \in {"none", "NoSuchEntity", "other"} : WaitForPolicyPoll(err)
    \/ WaitForPolicyGivesUp
    \/ \E err \in {"none", "other"} : GetExistingPolicy(err)
    \/ \E err \in {"none", "other"} : AttachRolePolicy(err)
    \/ \E err \in {"none", "other"}, found \in BOOLEAN : VerifyAttachment(err, found)


(***************************************************************************)
(* scripts/create_repos_and_branches.py: create_branches and               *)
(* create_repo_with_branches                                               *)
(***************************************************************************)

\* The branches of the repository the model follows.
BranchNames == {"main", "staging", "development"}

\* The items a --branches option is made of, as typed between the commas.
RawItems == {"staging", " development ", " "}

\* b.strip()
Strip(item) ==
    CASE item = " development " -> "development"
      [] item = " " -> ""
      [] OTHER -> item

\* branch_list = [b.strip() for b in branches.split(",") if b.strip()]
RECURSIVE ParseBranches(_)
ParseBranches(raw) ==
    IF raw = << >> THEN << >>
    ELSE IF Strip(Head(raw)) # ""
            THEN <<Strip(Head(raw))>> \o ParseBranches(Tail(raw))
            ELSE ParseBranches(Tail(raw))

RawOptions == UNION {[1..n -> RawItems] : n \in 1..MaxBranchItems}

NoRefs == [b \in BranchNames |-> 0]

GIdle ==
    /\ gpc = "idle"
    /\ gcmd = None
    /\ gruns = 0
    /\ repoExists = FALSE
    /\ refs = NoRefs
    /\ branches = << >>
    /\ branch_list = << >>
    /\ idx = 0
    /\ source_sha = 0
    /\ refsAtStart = NoRefs
    /\ createCalls = {}
    /\ foundRefs = {}
    /\ sameBranches = FALSE
    /\ gresult = None

\* The start of the branch-creation model: the repository is absent, or it
\* exists with its initial commit on main.
GInit ==
    /\ gpc = "idle"
    /\ gcmd = None
    /\ gruns = 0
    /\ repoExists \in BOOLEAN
    /\ refs = IF repoExists THEN [NoRefs EXCEPT !["main"] = 1] ELSE NoRefs
    /\ branches = << >>
    /\ branch_list = << >>
    /\ idx = 0
    /\ source_sha = 0
    /\ refsAtStart = NoRefs
    /\ createCalls = {}
    /\ foundRefs = {}
    /\ sameBranches = FALSE
    /\ gresult = None

\* Someone pushes a commit to main between two commands.
PushToMain ==
    /\ gpc \in {"idle", "done"}
    /\ repoExists
    /\ refs["main"] # 0
    /\ refs["main"] < MaxSha
    /\ refs' = [refs EXCEPT !["main"] = @ + 1]
    /\ gpc' = "idle"
    /\ UNCHANGED <<gcmd, gruns, repoExists, branches, branch_list, idx,
                   source_sha, refsAtStart, createCalls, foundRefs,
                   sameBranches, gresult>>
    /\ UNCHANGED othersG

\* A command ends before its branch loop with "return 1".
EndsEarly(cmd, raw) ==
    /\ gpc' = "done"
    /\ gcmd' = cmd
    /\ gresult' = 1
    /\ branches' = raw
    /\ branch_list' = << >>
    /\ idx' = 0
    /\ source_sha' = 0

\* A command reaches its branch loop.
EntersLoop(cmd, raw, sha) ==
    /\ gpc' = "loop"
    /\ gcmd' = cmd
    /\ gresult' = None
    /\ branches' = raw
    /\ branch_list' = ParseBranches(raw)
    /\ idx' = 1
    /\ source_sha' = sha

\* create_branches up to its loop: get_organization and get_repo (the
\* repository must exist), the source ref (it must exist), the parsed list
\* (it must not be empty); apiError is a missing token or any
\* GithubException on the way.
CreateBranchesStart(raw, source_branch, apiError) ==
    /\ gpc \in {"idle", "done"}
    /\ gruns < MaxCommands
    /\ gruns' = gruns + 1
    /\ sameBranches' = (gruns > 0 /\ raw = branches)
    /\ refsAtStart' = refs
    /\ createCalls' = {}
    /\ foundRefs' = {}
    /\ IF apiError \/ ~repoExists \/ refs[source_branch] = 0
             \/ ParseBranches(raw) = << >>
          THEN EndsEarly("create_branches", raw)
          ELSE EntersLoop("create_branches", raw, refs[source_branch])
    /\ UNCHANGED <<repoExists, refs>>
    /\ UNCHANGED othersG

\* create_repo_with_branches up to its loop: create_repo (refused when the
\* repository exists) with auto_init, the repository variables and access
\* rights, then the ref of main and the parsed list.
CreateRepoStart(raw, apiError, accessJsonOk) ==
    /\ gpc \in {"idle", "done"}
    /\ gruns < MaxCommands
    /\ gruns' = gruns + 1
    /\ sameBranches' = (gruns > 0 /\ raw = branches)
    /\ createCalls' = {}
    /\ foundRefs' = {}
    /\ IF repoExists \/ apiError
          THEN /\ EndsEarly("create_repo_with_branches", raw)
               /\ refsAtStart' = refs
               /\ UNCHANGED <<repoExists, refs>>
          ELSE /\ repoExists' = TRUE
               /\ refs' = [NoRefs EXCEPT !["main"] = 1]
               /\ refsAtStart' = refs'
               /\ IF ~accessJsonOk \/ ParseBranches(raw) = << >>
                     THEN EndsEarly("create_repo_with_branches", raw)
                     ELSE EntersLoop("create_repo_with_branches", raw, 1)
    /\ UNCHANGED othersG

SkipsBranch_Never(lookup) == FALSE

\* get_git_ref returned the ref: "already exists, skipping..." / continue.
SkipsBranch(lookup) == lookup = "found"

\* GitHub's answer to repo.get_git_ref(f"heads/{branch}"): the ref, or a
\* GithubException (no such ref, or any other failure of the call).
LookupAnswers(branch) ==
    IF refs[branch] # 0 THEN {"found", "raised"} ELSE {"raised"}

\* GitHub's handling of repo.create_git_ref: an existing reference is never
\* replaced (422 Reference already exists); the call may also fail otherwise.
CreateGitRef(branch, sha, fails) ==
    IF refs[branch] # 0 \/ fails THEN refs ELSE [refs EXCEPT ![branch] = sha]

\* One iteration of "for branch in branch_list".
BranchLoopStep(lookup, fails) ==
    /\ gpc = "loop"
    /\ idx <= Len(branch_list)
    /\ LET branch == branch_list[idx] IN
         /\ lookup \in LookupAnswers(branch)
         /\ IF SkipsBranch(lookup)
               THEN /\ foundRefs' = foundRefs \cup {branch}
                    /\ UNCHANGED <<refs, createCalls>>
               ELSE /\ refs' = CreateGitRef(branch, source_sha, fails)
                    /\ createCalls' = createCalls \cup
                          {[branch |-> branch, lookup |-> lookup,
                            existed |-> refs[branch] # 0, sha |-> source_sha]}
                    /\ foundRefs' = IF lookup = "found"
                                       THEN foundRefs \cup {branch}
                                       ELSE foundRefs
    /\ idx' = idx + 1
    /\ UNCHANGED <<gpc, gcmd, gruns, repoExists, branches, branch_list,
                   source_sha, refsAtStart, sameBranches, gresult>>
    /\ UNCHANGED othersG

\* After the loop: branch protection and the repository variables (they do
\* not touch the refs), then "return 0"; invalid JSON in --protection-config
\* gives "return 1".
AfterBranchLoop(protectionJsonOk) ==
    /\ gpc = "loop"
    /\ idx > Len(branch_list)
    /\ gpc' = "done"
    /\ gresult' = IF protectionJsonOk THEN 0 ELSE 1
    /\ UNCHANGED <<gcmd, gruns, repoExists, refs, branches, branch_list, idx,
                   source_sha, refsAtStart, createCalls, foundRefs,
                   sameBranches>>
    /\ UNCHANGED othersG

GStep ==
    \/ PushToMain
    \/ \E raw \in RawOptions, src \in BranchNames, apiError \in BOOLEAN :
          CreateBranchesStart(raw, src, apiError)
    \/ \E raw \in RawOptions, apiError \in BOOLEAN, accessJsonOk \in BOOLEAN :
          CreateRepoStart(raw, apiError, accessJsonOk)
    \/ \E lookup \in {"found", "raised"}, fails \in BOOLEAN :
          BranchLoopStep(lookup, fails)
    \/ \E protectionJsonOk \in BOOLEAN : AfterBranchLoop(protectionJsonOk)


(***************************************************************************)
(* scripts/create_repos_and_branches.py: delete_repo                       *)
(***************************************************************************)

RepoNames == {"repo-a", "repo-b"}

\* What input() can give at the prompt; EndOfInput is input() raising EOFError.
EndOfInput == "<EOF>"
TypedTexts == RepoNames \cup {"", "y", "REPO-A", "repo-a ", EndOfInput}

DIdle ==
    /\ dpc = "idle"
    /\ druns = 0
    /\ orgRepos = {}
    /\ orgAtStart = {}
    /\ repo_name = None
    /\ confirm = TRUE
    /\ confirmation = None
    /\ repoFound = FALSE
    /\ deleteCalls = {}
    /\ dresult = None

\* The start of the delete_repo model: any set of repositories exists.
DInit ==
    /\ dpc = "idle"
    /\ druns = 0
    /\ orgRepos \in SUBSET RepoNames
    /\ orgAtStart = orgRepos
    /\ repo_name = None
    /\ confirm = TRUE
    /\ confirmation = None
    /\ repoFound = FALSE
    /\ deleteCalls = {}
    /\ dresult = None

\* delete_repo up to the confirmation: get_organization and get_repo; a
\* repository that is not found (or a missing token, or any
\* GithubException) gives "return 1".
DeleteRepoStart(name, conf, apiError) ==
    /\ dpc \in {"idle", "done"}
    /\ druns < MaxDeletes
    /\ druns' = druns + 1
    /\ repo_name' = name
    /\ confirm' = conf
    /\ confirmation' = None
    /\ deleteCalls' = {}
    /\ orgAtStart' = orgRepos
    /\ repoFound' = (name \in orgRepos /\ ~apiError)
    /\ IF repoFound'
          THEN /\ dpc' = IF conf THEN "prompt" ELSE "delete"
               /\ dresult' = None
          ELSE /\ dpc' = "done"
               /\ dresult' = 1
    /\ UNCHANGED orgRepos
    /\ UNCHANGED othersD

ConfirmationRefused_UnlessYes(typed, name) == typed # name /\ typed # "y"

\* if confirmation != repo_name: "Deletion cancelled", return 1
ConfirmationRefused(typed, name) == typed # name

\* confirmation = input(...) and the comparison with repo_name; EOFError is
\* caught by "except Exception" and gives "return 1" as well.
Prompt(typed) ==
    /\ dpc = "prompt"
    /\ confirmation' = typed
    /\ IF typed = EndOfInput \/ ConfirmationRefused(typed, repo_name)
          THEN /\ dpc' = "done"
               /\ dresult' = 1
          ELSE /\ dpc' = "delete"
               /\ UNCHANGED dresult
    /\ UNCHANGED <<druns, orgRepos, orgAtStart, repo_name, confirm, repoFound,
                   deleteCalls>>
    /\ UNCHANGED othersD

\* repo.delete(): the repository is deleted, or the call raises and the
\* command returns 1.
PerformDelete(fails) ==
    /\ dpc = "delete"
    /\ deleteCalls' = deleteCalls \cup {repo_name}
    /\ orgRepos' = IF fails THEN orgRepos ELSE orgRepos \ {repo_name}
    /\ dresult' = IF fails THEN 1 ELSE 0
    /\ dpc' = "done"
    /\ UNCHANGED <<druns, orgAtStart, repo_name, confirm, confirmation,
                   repoFound>>
    /\ UNCHANGED othersD

DStep ==
    \/ \E name \in RepoNames, conf \in BOOLEAN, apiError \in BOOLEAN :
          DeleteRepoStart(name, conf, apiError)
    \/ \E typed \in TypedTexts : Prompt(typed)
    \/ \E fails \in BOOLEAN : PerformDelete(fails)


(***************************************************************************)
(* Character strings: a string is the sequence of its characters.          *)
(***************************************************************************)

\* s.endswith(suffix)
EndsWith(s, suffix) ==
    /\ Len(s) >= Len(suffix)
    /\ SubSeq(s, Len(s) - Len(suffix) + 1, Len(s)) = suffix

\* s.startswith(prefix)
StartsWith(s, prefix) ==
    /\ Len(s) >= Len(prefix)
    /\ SubSeq(s, 1, Len(prefix)) = prefix

\* s.replace(old, new), for a non-empty old: left to right, no overlaps.
RECURSIVE Replace(_, _, _)
Replace(s, old, new) ==
    IF s = << >> THEN << >>
    ELSE IF StartsWith(s, old)
            THEN new \o Replace(SubSeq(s, Len(old) + 1, Len(s)), old, new)
            ELSE <<Head(s)>> \o Replace(Tail(s), old, new)

UpperCase == <<"A", "B", "C", "D", "E", "F", "G", "H", "I", "J", "K", "L", "M", "N", "O", "P", "Q", "R", "S", "T", "U", "V", "W", "X", "Y", "Z">>
LowerCase == <<"a", "b", "c", "d", "e", "f", "g", "h", "i", "j", "k", "l", "m", "n", "o", "p", "q", "r", "s", "t", "u", "v", "w", "x", "y", "z">>

\* s.lower()
Lower(s) ==
    [i \in 1..Len(s) |->
        IF \E k \in 1..Len(UpperCase) : UpperCase[k] = s[i]
           THEN LowerCase[CHOOSE k \in 1..Len(UpperCase) : UpperCase[k] = s[i]]
           ELSE s[i]]

\* sep.join(parts)
RECURSIVE Join(_, _)
Join(sep, parts) ==
    IF parts = << >> THEN << >>
    ELSE IF Len(parts) = 1 THEN parts[1]
    ELSE parts[1] \o sep \o Join(sep, Tail(parts))

(***************************************************************************)
(* integration/config/project_settings.py                                  *)
(***************************************************************************)

\* "<changeme>", the default of the derived fields
Changeme == <<"<", "c", "h", "a", "n", "g", "e", "m", "e", ">">>

\* PROJECT_SLUG: str = "salesforce-integration"
DefaultProjectSlug == <<"s", "a", "l", "e", "s", "f", "o", "r", "c", "e", "-", "i", "n", "t", "e", "g", "r", "a", "t", "i", "o", "n">>

\* ENVIRONMENT: Literal["testing", "development", "staging", "production"]
Environments == {<<"t", "e", "s", "t", "i", "n", "g">>,
                 <<"d", "e", "v", "e", "l", "o", "p", "m", "e", "n", "t">>,
                 <<"s", "t", "a", "g", "i", "n", "g">>,
                 <<"p", "r", "o", "d", "u", "c", "t", "i", "o", "n">>}

\* The names of the two derived resource fields.
FieldS3BucketStorage == <<"S", "3", "_", "B", "U", "C", "K", "E", "T", "_", "S", "T", "O", "R", "A", "G", "E">>
FieldSqsQueueMessages == <<"S", "Q", "S", "_", "Q", "U", "E", "U", "E", "_", "M", "E", "S", "S", "A", "G", "E", "S">>

\* A field the environment does not supply.
Unset == << "<unset>" >>

\* Values the environment may supply for each field.
SuppliedEnvironment == Environments \cup {<<"q", "a">>, Unset}
SuppliedSlug == {Unset, <<"a", "c", "m", "e">>}
SuppliedSuffix == {Unset, Changeme, <<"d", "e", "v">>, <<"x", ".", "f", "i", "f", "o">>}
SuppliedBucket == {Unset, <<"m", "y", "-", "b", "u", "c", "k", "e", "t">>}
SuppliedQueue == {Unset, Changeme, <<"j", "o", "b", "s">>, <<"j", "o", "b", "s", ".", "f", "i", "f", "o">>}

NoData == [PROJECT_SLUG |-> Unset, ENVIRONMENT |-> Unset,
           AWS_RESOURCE_SUFFIX |-> Unset, S3_BUCKET_STORAGE |-> Unset,
           SQS_QUEUE_MESSAGES |-> Unset]

SIdle ==
    /\ spc = "idle"
    /\ environ = NoData
    /\ data = NoData
    /\ declared = {}

\* Settings() is about to be constructed from some environment.
SInit ==
    /\ spc = "PROJECT_SLUG"
    /\ environ \in [PROJECT_SLUG : SuppliedSlug,
                    ENVIRONMENT : SuppliedEnvironment,
                    AWS_RESOURCE_SUFFIX : SuppliedSuffix,
                    S3_BUCKET_STORAGE : SuppliedBucket,
                    SQS_QUEUE_MESSAGES : SuppliedQueue]
    /\ data = NoData
    /\ declared = {}

\* The value a field validator receives: the supplied value, or the default.
Given(field, default) ==
    IF environ[field] = Unset THEN default ELSE environ[field]

\* PROJECT_SLUG: str = "salesforce-integration" (no validator)
ValidateProjectSlug ==
    /\ spc = "PROJECT_SLUG"
    /\ data' = [data EXCEPT !.PROJECT_SLUG = Given("PROJECT_SLUG", DefaultProjectSlug)]
    /\ spc' = "ENVIRONMENT"
    /\ UNCHANGED <<environ, declared>>
    /\ UNCHANGED othersS

\* ENVIRONMENT: a required Literal; a missing or other value fails validation
\* and the field is left out of info.data.
ValidateEnvironment ==
    /\ spc = "ENVIRONMENT"
    /\ IF environ.ENVIRONMENT \in Environments
          THEN data' = [data EXCEPT !.ENVIRONMENT = environ.ENVIRONMENT]
          ELSE UNCHANGED data
    /\ spc' = "AWS_RESOURCE_SUFFIX"
    /\ UNCHANGED <<environ, declared>>
    /\ UNCHANGED othersS

construct_aws_resource_suffix_AlwaysEnvironment(value, info) == info.ENVIRONMENT

\* Settings.construct_aws_resource_suffix(value, info)
construct_aws_resource_suffix(value, info) ==
    IF value # Changeme THEN value ELSE info.ENVIRONMENT

\* AWS_RESOURCE_SUFFIX and its validator; info.data["ENVIRONMENT"] raises
\* KeyError when ENVIRONMENT failed validation, and Settings() fails.
ValidateAwsResourceSuffix ==
    /\ spc = "AWS_RESOURCE_SUFFIX"
    /\ LET value == Given("AWS_RESOURCE_SUFFIX", Changeme) IN
         IF value = Changeme /\ data.ENVIRONMENT = Unset
            THEN /\ spc' = "error"
                 /\ UNCHANGED data
            ELSE /\ data' = [data EXCEPT !.AWS_RESOURCE_SUFFIX =
                                construct_aws_resource_suffix(value, data)]
                 /\ spc' = "S3_BUCKET_STORAGE"
    /\ UNCHANGED <<environ, declared>>
    /\ UNCHANGED othersS

\* info.field_name.replace(prefix, "").lower().replace("_", "-")
ResourceKind(field_name, prefix) ==
    Replace(Lower(Replace(field_name, prefix, << >>)), <<"_">>, <<"-">>)

\* Settings.validate_s3_buckets(value, info)
validate_s3_buckets(value, info, field_name) ==
    IF value # Changeme THEN value
    ELSE Join(<<"-">>, <<info.PROJECT_SLUG, info.AWS_RESOURCE_SUFFIX,
                         ResourceKind(field_name, <<"S", "3", "_", "B", "U", "C", "K", "E", "T", "_">>)>>)

ValidateS3BucketStorage ==
    /\ spc = "S3_BUCKET_STORAGE"
    /\ data' = [data EXCEPT !.S3_BUCKET_STORAGE =
                  validate_s3_buckets(Given("S3_BUCKET_STORAGE", Changeme),
                                      data, FieldS3BucketStorage)]
    /\ spc' = "SQS_QUEUE_MESSAGES"
    /\ UNCHANGED <<environ, declared>>
    /\ UNCHANGED othersS

\* "if info.field_name in {}": the fields whose queue is FIFO (none).
FifoQueueFields == {}

validate_sqs_queues_Bucket(value, info, field_name) ==
    validate_s3_buckets(value, info, field_name)

\* Settings.validate_sqs_queues(value, info)
validate_sqs_queues(value, info, field_name) ==
    IF value # Changeme THEN value
    ELSE LET queue_name ==
                Join(<<"-">>, <<info.PROJECT_SLUG, info.AWS_RESOURCE_SUFFIX,
                                ResourceKind(field_name, <<"S", "Q", "S", "_", "Q", "U", "E", "U", "E", "_">>)>>)
         IN IF field_name \in FifoQueueFields
               THEN queue_name \o <<".", "f", "i", "f", "o">>
               ELSE queue_name

ValidateSqsQueueMessages ==
    /\ spc = "SQS_QUEUE_MESSAGES"
    /\ data' = [data EXCEPT !.SQS_QUEUE_MESSAGES =
                  validate_sqs_queues(Given("SQS_QUEUE_MESSAGES", Changeme),
                                      data, FieldSqsQueueMessages)]
    /\ spc' = IF data.ENVIRONMENT = Unset THEN "error" ELSE "done"
    /\ UNCHANGED <<environ, declared>>
    /\ UNCHANGED othersS



(***************************************************************************)
(* integration/utils/aws.py (Boto3Clients) and tests/conftest.py           *)
(***************************************************************************)

Services == {"s3", "sqs", "dynamodb", "cloudwatch"}

\* Boto3Clients.__init__: no client yet
NoClients == [svc \in Services |-> 0]

Reset_KeepsSqs(cs) == [cs EXCEPT !["s3"] = 0, !["dynamodb"] = 0, !["cloudwatch"] = 0]

\* Boto3Clients.reset()
Reset(cs) == [svc \in Services |-> 0]

CachedClient_AlwaysNew(cs, svc, fresh) == [cs EXCEPT ![svc] = fresh]

\* "if not self._<svc>_client: self._<svc>_client = boto3.client(...)":
\* the cache after a read of the property, fresh being the client
\* boto3.client would return.
CachedClient(cs, svc, fresh) ==
    IF cs[svc] = 0 THEN [cs EXCEPT ![svc] = fresh] ELSE cs

\* The <service>_client properties: the cached client, or a new one made by
\* boto3.client in the mock that is active.
ClientProperty(cs, svc) == CachedClient(cs, svc, mockId)

\* The settings objects the tests may run with: the derived names of the
\* testing environment, or names supplied by the environment.
TestingInfo == [NoData EXCEPT !.PROJECT_SLUG = DefaultProjectSlug,
                              !.ENVIRONMENT = <<"t", "e", "s", "t", "i", "n", "g">>,
                              !.AWS_RESOURCE_SUFFIX = <<"t", "e", "s", "t", "i", "n", "g">>]
FixtureSettings ==
    {[S3_BUCKET_STORAGE |-> validate_s3_buckets(b, TestingInfo, FieldS3BucketStorage),
      SQS_QUEUE_MESSAGES |-> validate_sqs_queues(q, TestingInfo, FieldSqsQueueMessages)] :
        b \in {Changeme, <<"m", "y", "-", "b", "u", "c", "k", "e", "t">>}, q \in {Changeme, <<"j", "o", "b", "s", ".", "f", "i", "f", "o">>}}

FIdle ==
    /\ fpc = "idle"
    /\ testNo = 0
    /\ mockId = 0
    /\ clients = NoClients
    /\ mockBuckets = {}
    /\ mockQueues = {}
    /\ fsteps = << >>
    /\ uses = {}
    /\ fsettings = [S3_BUCKET_STORAGE |-> Unset, SQS_QUEUE_MESSAGES |-> Unset]

\* A pytest session begins: BOTO3_CLIENTS is fresh, no mock is active.
FInit ==
    /\ fpc = "idle"
    /\ testNo = 0
    /\ mockId = 0
    /\ clients = NoClients
    /\ mockBuckets = {}
    /\ mockQueues = {}
    /\ fsteps = << >>
    /\ uses = {}
    /\ fsettings \in FixtureSettings

\* with moto.mock_aws(): the fixture of the next test enters a fresh mock.
EnterMock ==
    /\ fpc \in {"idle", "exit"}
    /\ testNo < MaxTests
    /\ testNo' = testNo + 1
    /\ mockId' = testNo + 1
    /\ mockBuckets' = {}
    /\ mockQueues' = {}
    /\ fsteps' = << >>
    /\ uses' = {}
    /\ fpc' = "reset"
    /\ UNCHANGED <<clients, fsettings>>
    /\ UNCHANGED othersF

\* BOTO3_CLIENTS.reset()   (first statement inside the mock)
FixtureReset ==
    /\ fpc = "reset"
    /\ clients' = Reset(clients)
    /\ fsteps' = Append(fsteps, "reset")
    /\ fpc' = "create_bucket"
    /\ UNCHANGED <<testNo, mockId, mockBuckets, mockQueues, uses, fsettings>>
    /\ UNCHANGED othersF

\* The with block is left by an exception of the fixture's setup: the mock
\* ends and the statements after the failing one are not run.
SetupFails ==
    /\ fpc' = "exit"
    /\ mockId' = 0
    /\ mockBuckets' = {}
    /\ mockQueues' = {}

\* BOTO3_CLIENTS.s3_client.create_bucket(Bucket=settings.S3_BUCKET_STORAGE, ...)
FixtureCreateBucket(fails) ==
    /\ fpc = "create_bucket"
    /\ clients' = ClientProperty(clients, "s3")
    /\ uses' = uses \cup {[test |-> testNo, svc |-> "s3", mock |-> clients'["s3"]]}
    /\ IF fails
          THEN /\ SetupFails
               /\ UNCHANGED fsteps
          ELSE /\ mockBuckets' = mockBuckets \cup {fsettings.S3_BUCKET_STORAGE}
               /\ fsteps' = Append(fsteps, "create_bucket")
               /\ fpc' = "create_queue"
               /\ UNCHANGED <<mockId, mockQueues>>
    /\ UNCHANGED <<testNo, fsettings>>
    /\ UNCHANGED othersF

\* "FifoQueue": str(settings.SQS_QUEUE_MESSAGES.endswith(".fifo")).lower()
FifoQueueAttribute(name) ==
    IF EndsWith(name, <<".", "f", "i", "f", "o">>) THEN "true" ELSE "false"

\* BOTO3_CLIENTS.sqs_client.create_queue(QueueName=..., Attributes={...})
FixtureCreateQueue(fails) ==
    /\ fpc = "create_queue"
    /\ clients' = ClientProperty(clients, "sqs")
    /\ uses' = uses \cup {[test |-> testNo, svc |-> "sqs", mock |-> clients'["sqs"]]}
    /\ IF fails
          THEN /\ SetupFails
               /\ UNCHANGED fsteps
          ELSE /\ mockQueues' = mockQueues \cup
                     {[QueueName |-> fsettings.SQS_QUEUE_MESSAGES,
                       VisibilityTimeout |-> "900",
                       FifoQueue |-> FifoQueueAttribute(fsettings.SQS_QUEUE_MESSAGES)]}
               /\ fsteps' = Append(fsteps, "create_queue")
               /\ fpc' = "test"
               /\ UNCHANGED <<mockId, mockBuckets>>
    /\ UNCHANGED <<testNo, fsettings>>
    /\ UNCHANGED othersF

\* The test body (after "yield None") uses a client of BOTO3_CLIENTS.
TestUsesClient(svc) ==
    /\ fpc = "test"
    /\ Cardinality({u \in uses : u.svc \notin {"s3", "sqs"}}) < MaxUses
    /\ clients' = ClientProperty(clients, svc)
    /\ uses' = uses \cup {[test |-> testNo, svc |-> svc, mock |-> clients'[svc]]}
    /\ UNCHANGED <<fpc, testNo, mockId, mockBuckets, mockQueues, fsteps, fsettings>>
    /\ UNCHANGED othersF

\* The test body ends (passing or failing): pytest resumes the fixture.
TestEnds ==
    /\ fpc = "test"
    /\ fsteps' = Append(fsteps, "test")
    /\ fpc' = "teardown"
    /\ UNCHANGED <<testNo, mockId, clients, mockBuckets, mockQueues, uses, fsettings>>
    /\ UNCHANGED othersF

\* BOTO3_CLIENTS.reset() after the yield, then the with block ends the mock.
FixtureTeardown ==
    /\ fpc = "teardown"
    /\ clients' = Reset(clients)
    /\ fsteps' = Append(fsteps, "reset")
    /\ fpc' = "exit"
    /\ mockId' = 0
    /\ mockBuckets' = {}
    /\ mockQueues' = {}
    /\ UNCHANGED <<testNo, uses, fsettings>>
    /\ UNCHANGED othersF

FStep ==
    \/ EnterMock
    \/ FixtureReset
    \/ \E fails \in BOOLEAN : FixtureCreateBucket(fails)
    \/ \E fails \in BOOLEAN : FixtureCreateQueue(fails)
    \/ \E svc \in Services : TestUsesClient(svc)
    \/ TestEnds
    \/ FixtureTeardown


(***************************************************************************)
(* infrastructure/constructs/sqs.py (QueueWithDLQ) and the 'messages'      *)
(* queue of infrastructure/stacks/main.py                                  *)
(***************************************************************************)

\* Queues.__init__: the arguments of self.queues["messages"]
MessagesQueueArgs(settings) ==
    [name |-> Join(<<"-">>, <<settings.PROJECT_SLUG, settings.AWS_RESOURCE_SUFFIX,
                              <<"m", "e", "s", "s", "a", "g", "e", "s">>>>),
     create_dlq |-> TRUE,
     max_receive_count |-> 3,
     is_fifo |-> FALSE,
     content_based_deduplication |-> FALSE,
     visibility_timeout |-> 900]

QueueNames == {<<"q">>, <<"q", ".", "f", "i", "f", "o">>, <<"f", "i", "f", "o">>}

\* The calls of QueueWithDLQ the model constructs.
ConstructArgs ==
    [name : QueueNames, create_dlq : BOOLEAN,
     max_receive_count : 1..MaxReceiveCount, is_fifo : BOOLEAN,
     content_based_deduplication : BOOLEAN, visibility_timeout : {900}]
    \cup {MessagesQueueArgs(TestingInfo)}

\* An optional object (a queue, a dead-letter setting): the empty set for
\* None, the singleton of the object otherwise.
NoObject == {}
Some(x) == {x}
The(opt) == CHOOSE x \in opt : TRUE

NoConstruct == [dead_letter_queue |-> NoObject, queue |-> NoObject]
NoArgs == [name |-> << >>, create_dlq |-> FALSE, max_receive_count |-> 3,
           is_fifo |-> FALSE, content_based_deduplication |-> FALSE,
           visibility_timeout |-> 900]
NoMessages == [m \in 1..MaxMessages |-> [at |-> "unsent", receives |-> 0]]

QIdle ==
    /\ qpc = "idle"
    /\ qargs = NoArgs
    /\ construct = NoConstruct
    /\ msgs = << >>

QInit ==
    /\ qpc = "args"
    /\ qargs \in ConstructArgs
    /\ construct = NoConstruct
    /\ msgs = << >>

FifoParams_Always(is_fifo, content_based_deduplication) ==
    {<<"fifo", is_fifo>>,
     <<"content_based_deduplication", content_based_deduplication>>}

\* fifo_params = {}; if is_fifo: fifo, content_based_deduplication
FifoParams(is_fifo, content_based_deduplication) ==
    IF is_fifo
       THEN {<<"fifo", TRUE>>,
             <<"content_based_deduplication", content_based_deduplication>>}
       ELSE {}

CreatesDlq_Always(create_dlq) == TRUE

\* if create_dlq:
CreatesDlq(create_dlq) == create_dlq

\* self.dead_letter_queue = aws_sqs.Queue(...) or None
DeadLetterQueue(a) ==
    IF CreatesDlq(a.create_dlq)
       THEN Some(
            [queue_name |-> IF a.is_fifo THEN a.name \o <<"-", "d", "l", "q", ".", "f", "i", "f", "o">>
                                         ELSE a.name \o <<"-", "d", "l", "q">>,
             dead_letter_queue |-> NoObject,
             visibility_timeout |-> a.visibility_timeout,
             fifo_params |-> FifoParams(a.is_fifo, a.content_based_deduplication)])
       ELSE NoObject

\* self.queue = aws_sqs.Queue(..., dead_letter_queue=DeadLetterQueue(...) or None)
MainQueue(a, dlq) ==
    [queue_name |-> IF a.is_fifo THEN a.name \o <<".", "f", "i", "f", "o">> ELSE a.name,
     dead_letter_queue |->
        IF dlq # NoObject
           THEN Some([max_receive_count |-> a.max_receive_count,
                      queue |-> The(dlq).queue_name])
           ELSE NoObject,
     visibility_timeout |-> a.visibility_timeout,
     fifo_params |-> FifoParams(a.is_fifo, a.content_based_deduplication)]

\* QueueWithDLQ.__init__: the assertion on the name, then the two queues.
Construct ==
    /\ qpc = "args"
    /\ IF EndsWith(qargs.name, <<".", "f", "i", "f", "o">>)
          THEN /\ qpc' = "refused"
               /\ UNCHANGED <<construct, msgs>>
          ELSE /\ qpc' = "built"
               /\ construct' =
                    [dead_letter_queue |-> DeadLetterQueue(qargs),
                     queue |-> Some(MainQueue(qargs, DeadLetterQueue(qargs)))]
               /\ msgs' = NoMessages
    /\ UNCHANGED qargs
    /\ UNCHANGED othersQ

\* A producer sends message m to the main queue.
SendMessage(m) ==
    /\ qpc = "built"
    /\ msgs[m].at = "unsent"
    /\ msgs' = [msgs EXCEPT ![m].at = "queue"]
    /\ UNCHANGED <<qpc, qargs, construct>>
    /\ UNCHANGED othersQ

\* SQS and the queue's dead-letter setting: a message that has been received
\* max_receive_count times is not delivered again but moved to the DLQ.
Redrives(setting, receives) ==
    setting # NoObject /\ receives >= The(setting).max_receive_count

\* A consumer asks for message m: SQS delivers it, or moves it to the DLQ.
ReceiveMessage(m) ==
    /\ qpc = "built"
    /\ msgs[m].at = "queue"
    /\ IF Redrives(The(construct.queue).dead_letter_queue, msgs[m].receives)
          THEN msgs' = [msgs EXCEPT ![m].at = "dlq"]
          ELSE /\ msgs[m].receives < MaxReceiveCount + 1
               /\ msgs' = [msgs EXCEPT ![m].at = "inflight",
                                       ![m].receives = @ + 1]
    /\ UNCHANGED <<qpc, qargs, construct>>
    /\ UNCHANGED othersQ

\* The consumer processed m and deletes it, or failed and the visibility
\* timeout returns m to the queue.
FinishMessage(m, processed) ==
    /\ qpc = "built"
    /\ msgs[m].at = "inflight"
    /\ msgs' = [msgs EXCEPT ![m].at = IF processed THEN "deleted" ELSE "queue"]
    /\ UNCHANGED <<qpc, qargs, construct>>
    /\ UNCHANGED othersQ

QStep ==
    \/ Construct
    \/ \E m \in 1..MaxMessages : SendMessage(m)
    \/ \E m \in 1..MaxMessages : ReceiveMessage(m)
    \/ \E m \in 1..MaxMessages, processed \in BOOLEAN : FinishMessage(m, processed)

(***************************************************************************)
(* scripts/create_repos_and_branches.py: setup_repository_access and       *)
(* setup_branch_protection, as the commands call them                      *)
(***************************************************************************)

\* DEFAULT_ACCESS_CONFIG (name and type of each entry).
DEFAULT_ACCESS_CONFIG ==
    << [name |-> "engineering", type |-> "team"],
       [name |-> "gigic31", type |-> "user"],
       [name |-> "kicksaw", type |-> "team"],
       [name |-> "tsabat", type |-> "user"] >>

\* An --access-config given on the command line.
CustomAccessConfig ==
    << [name |-> "Engineering", type |-> "team"],
       [name |-> "robot", type |-> "bot"],
       [name |-> "tsabat", type |-> "user"] >>

\* The teams of the organization, by slug.
OrgTeams == {"engineering", "kicksaw"}

\* name.lower()
LowerName(name) == IF name = "Engineering" THEN "engineering" ELSE name

\* What the API calls of one entry can do: "ok", "404" (GET /users/<name>),
\* "GithubException" (any other status), "Exception" (not a GithubException).
GrantOutcomes == {"ok", "404", "GithubException", "Exception"}

\* if access_config is None: access_config = DEFAULT_ACCESS_CONFIG
AccessConfigOf(config) == IF config = None THEN DEFAULT_ACCESS_CONFIG ELSE config

\* Whether the entry ends with access granted: a team must be among
\* all_teams and update_team_repository must return; a user must be found
\* and add_to_collaborators must return; any other type grants nothing.
Grants(entry, teams, result) ==
    CASE entry.type = "team" -> LowerName(entry.name) \in teams /\ result = "ok"
      [] entry.type = "user" -> result = "ok"
      [] OTHER -> FALSE

\* The default list of setup_branch_protection (branches_config is None).
DefaultBranchesConfig ==
    << [name |-> "main", require_pr |-> TRUE, allow_bypass |-> FALSE],
       [name |-> "staging", require_pr |-> TRUE, allow_bypass |-> FALSE],
       [name |-> "secure", require_pr |-> TRUE, allow_bypass |-> FALSE],
       [name |-> "development", require_pr |-> TRUE, allow_bypass |-> TRUE] >>

\* A --protection-config given on the command line.
CustomBranchesConfig ==
    << [name |-> "qa", require_pr |-> TRUE, allow_bypass |-> FALSE],
       [name |-> "staging", require_pr |-> FALSE, allow_bypass |-> TRUE],
       [name |-> "development", require_pr |-> TRUE, allow_bypass |-> FALSE] >>

\* if branches_config is None: branches_config = [main, staging, secure,
\* development]
BranchesConfigOf(config) ==
    IF config = None THEN DefaultBranchesConfig ELSE config

\* default="staging,development,production,secure" of --branches, as the
\* items between the commas.
DefaultBranchesOption == <<"staging", "development", "production", "secure">>

\* The --branches options the model runs the commands with.
BranchesOptions == {DefaultBranchesOption, <<"staging", " development ">>}

\* The items of a sequence, as a set.
Items(seq) == {seq[i] : i \in 1..Len(seq)}

PIdle ==
    /\ apc = "idle"
    /\ all_teams = {}
    /\ access_config = << >>
    /\ aidx = 0
    /\ granted = {}
    /\ accessFailed = {}
    /\ aresult = NoObject
    /\ ppc = "idle"
    /\ pcmd = None
    /\ defaultBranches = FALSE
    /\ defaultProtection = FALSE
    /\ repoBranches = {}
    /\ createdBranches = {}
    /\ branches_config = << >>
    /\ pidx = 0
    /\ skipped = {}
    /\ editCalls = {}
    /\ protected = {}
    /\ reviewCalls = {}
    /\ reviewed = {}
    /\ protFailed = {}
    /\ presult = NoObject

\* The start of the model of the two setup functions: nothing has run.
PInit == PIdle

\* setup_repository_access up to its loop, called by
\* create_repo_with_branches: organization.get_teams() gives the teams, or
\* raises and leaves all_teams empty.
SetupRepositoryAccessCall(config, teamsFetched) ==
    /\ apc = "idle"
    /\ ppc = "idle"
    /\ apc' = "loop"
    /\ all_teams' = IF teamsFetched THEN OrgTeams ELSE {}
    /\ access_config' = AccessConfigOf(config)
    /\ aidx' = 1
    /\ pcmd' = "create_repo_with_branches"
    /\ UNCHANGED <<granted, accessFailed, aresult, ppc, defaultBranches,
                   defaultProtection, repoBranches, createdBranches,
                   branches_config, pidx, skipped, editCalls, protected,
                   reviewCalls, reviewed, protFailed, presult>>
    /\ UNCHANGED othersP

\* One iteration of "for entry in access_config": every failure is printed
\* and the loop goes on.
AccessEntry(result) ==
    /\ apc = "loop"
    /\ aidx <= Len(access_config)
    /\ LET entry == access_config[aidx] IN
         IF Grants(entry, all_teams, result)
            THEN /\ granted' = granted \cup {entry.name}
                 /\ UNCHANGED accessFailed
            ELSE /\ accessFailed' = accessFailed \cup {entry.name}
                 /\ UNCHANGED granted
    /\ aidx' = aidx + 1
    /\ UNCHANGED <<apc, all_teams, access_config, aresult, ppc, pcmd,
                   defaultBranches, defaultProtection, repoBranches,
                   createdBranches, branches_config, pidx, skipped, editCalls,
                   protected, reviewCalls, reviewed, protFailed, presult>>
    /\ UNCHANGED othersP

\* The value setup_repository_access returns ("return True", its only return).
AccessResult(failed) == TRUE

\* The end of setup_repository_access.
SetupRepositoryAccessReturn ==
    /\ apc = "loop"
    /\ aidx > Len(access_config)
    /\ apc' = "done"
    /\ aresult' = Some(AccessResult(accessFailed))
    /\ UNCHANGED <<all_teams, access_config, aidx, granted, accessFailed, ppc,
                   pcmd, defaultBranches, defaultProtection, repoBranches,
                   createdBranches, branches_config, pidx, skipped, editCalls,
                   protected, reviewCalls, reviewed, protFailed, presult>>
    /\ UNCHANGED othersP

\* The branch loop of a command, as a whole: every requested branch that is
\* absent is created from the source branch unless its create_git_ref call
\* fails. create_branches works on a repository that may already hold some
\* of the branches; create_repo_with_branches on a repository it has just
\* created with main only, after the access step (or with --no-setup-access).
BranchLoopDone(cmd, raw, existing, failing) ==
    /\ ppc = "idle"
    /\ \/ cmd = "create_branches" /\ apc = "idle"
       \/ /\ cmd = "create_repo_with_branches"
          /\ existing = {}
          /\ apc = "done" \/ (apc = "idle" /\ pcmd = None)
    /\ LET requested == Items(ParseBranches(raw))
           created == (requested \ ({"main"} \cup existing)) \ failing
       IN /\ repoBranches' = {"main"} \cup existing \cup created
          /\ createdBranches' = created
    /\ pcmd' = cmd
    /\ defaultBranches' = (raw = DefaultBranchesOption)
    /\ ppc' = "created"
    /\ UNCHANGED <<apc, all_teams, access_config, aidx, granted, accessFailed,
                   aresult, defaultProtection, branches_config, pidx, skipped,
                   editCalls, protected, reviewCalls, reviewed, protFailed,
                   presult>>
    /\ UNCHANGED othersP

\* "if setup_protection:" with --no-setup-protection: the command goes on
\* without calling setup_branch_protection.
NoSetupProtection ==
    /\ ppc = "created"
    /\ ppc' = "done"
    /\ UNCHANGED <<apc, all_teams, access_config, aidx, granted, accessFailed,
                   aresult, pcmd, defaultBranches, defaultProtection,
                   repoBranches, createdBranches, branches_config, pidx,
                   skipped, editCalls, protected, reviewCalls, reviewed,
                   protFailed, presult>>
    /\ UNCHANGED othersP

\* setup_branch_protection(repo, config) up to its loop; config is None
\* without --protection-config.
SetupBranchProtectionCall(config) ==
    /\ ppc = "created"
    /\ ppc' = "get_branch"
    /\ branches_config' = BranchesConfigOf(config)
    /\ defaultProtection' = (config = None)
    /\ pidx' = 1
    /\ UNCHANGED <<apc, all_teams, access_config, aidx, granted, accessFailed,
                   aresult, pcmd, defaultBranches, repoBranches,
                   createdBranches, skipped, editCalls, protected, reviewCalls,
                   reviewed, protFailed, presult>>
    /\ UNCHANGED othersP

\* GitHub's answer to repo.get_branch(branch_name): the branch, or an
\* exception (no such branch, or any other failure of the call).
GetBranchAnswers(branch_name) ==
    IF branch_name \in repoBranches THEN {"found", "raised"} ELSE {"raised"}

SkipsProtection_Never(answer) == FALSE

\* "except Exception: ... not found, skipping protection setup / continue"
SkipsProtection(answer) == answer = "raised"

\* The existence check of one iteration of "for branch_config in
\* branches_config".
ProtectGetBranch(answer) ==
    /\ ppc = "get_branch"
    /\ pidx <= Len(branches_config)
    /\ answer \in GetBranchAnswers(branches_config[pidx].name)
    /\ IF SkipsProtection(answer)
          THEN /\ skipped' = skipped \cup {branches_config[pidx].name}
               /\ pidx' = pidx + 1
               /\ UNCHANGED ppc
          ELSE /\ ppc' = "edit_protection"
               /\ UNCHANGED <<skipped, pidx>>
    /\ UNCHANGED <<apc, all_teams, access_config, aidx, granted, accessFailed,
                   aresult, pcmd, defaultBranches, defaultProtection,
                   repoBranches, createdBranches, branches_config, editCalls,
                   protected, reviewCalls, reviewed, protFailed, presult>>
    /\ UNCHANGED othersP

\* "if require_pr:" before branch.edit_required_pull_request_reviews
WantsReviews(branch_config) == branch_config.require_pr

\* The second repo.get_branch and branch.edit_protection of an iteration:
\* "get_branch raised" and "raised" are caught by the "except Exception" of
\* the iteration, which prints the error and goes on with the next branch.
ProtectEdit(result) ==
    /\ ppc = "edit_protection"
    /\ LET branch_config == branches_config[pidx] IN
         /\ editCalls' = IF result = "get_branch raised" THEN editCalls
                         ELSE editCalls \cup {branch_config.name}
         /\ IF result = "returned"
               THEN /\ protected' = protected \cup {branch_config.name}
                    /\ UNCHANGED protFailed
                    /\ IF WantsReviews(branch_config)
                          THEN ppc' = "reviews" /\ UNCHANGED pidx
                          ELSE ppc' = "get_branch" /\ pidx' = pidx + 1
               ELSE /\ protFailed' = protFailed \cup {branch_config.name}
                    /\ ppc' = "get_branch"
                    /\ pidx' = pidx + 1
                    /\ UNCHANGED protected
    /\ UNCHANGED <<apc, all_teams, access_config, aidx, granted, accessFailed,
                   aresult, pcmd, defaultBranches, defaultProtection,
                   repoBranches, createdBranches, branches_config, skipped,
                   reviewCalls, reviewed, presult>>
    /\ UNCHANGED othersP

\* branch.edit_required_pull_request_reviews of an iteration.
ProtectReviews(fails) ==
    /\ ppc = "reviews"
    /\ LET branch_config == branches_config[pidx] IN
         /\ reviewCalls' = reviewCalls \cup {branch_config.name}
         /\ IF fails
               THEN /\ protFailed' = protFailed \cup {branch_config.name}
                    /\ UNCHANGED reviewed
               ELSE /\ reviewed' = reviewed \cup {branch_config.name}
                    /\ UNCHANGED protFailed
    /\ ppc' = "get_branch"
    /\ pidx' = pidx + 1
    /\ UNCHANGED <<apc, all_teams, access_config, aidx, granted, accessFailed,
                   aresult, pcmd, defaultBranches, defaultProtection,
                   repoBranches, createdBranches, branches_config, skipped,
                   editCalls, protected>>
    /\ UNCHANGED <<presult>>
    /\ UNCHANGED othersP

\* The value setup_branch_protection returns ("return True", its only
\* return).
ProtectionResult(failed) == TRUE

\* The end of setup_branch_protection.
SetupBranchProtectionReturn ==
    /\ ppc = "get_branch"
    /\ pidx > Len(branches_config)
    /\ ppc' = "done"
    /\ presult' = Some(ProtectionResult(protFailed))
    /\ UNCHANGED <<apc, all_teams, access_config, aidx, granted, accessFailed,
                   aresult, pcmd, defaultBranches, defaultProtection,
                   repoBranches, createdBranches, branches_config, pidx,
                   skipped, editCalls, protected, reviewCalls, reviewed,
                   protFailed>>
    /\ UNCHANGED othersP

PStep ==
    \/ \E config \in {None, CustomAccessConfig}, teamsFetched \in BOOLEAN :
          SetupRepositoryAccessCall(config, teamsFetched)
    \/ \E result \in GrantOutcomes : AccessEntry(result)
    \/ SetupRepositoryAccessReturn
    \/ \E cmd \in {"create_branches", "create_repo_with_branches"},
          raw \in BranchesOptions,
          existing \in {{}, {"staging"}},
          failing \in {{}, {"secure"}, {"staging", "production"}} :
          BranchLoopDone(cmd, raw, existing, failing)
    \/ NoSetupProtection
    \/ \E config \in {None, CustomBranchesConfig} :
          SetupBranchProtectionCall(config)
    \/ \E answer \in {"found", "raised"} : ProtectGetBranch(answer)
    \/ \E result \in {"returned", "get_branch raised", "raised"} :
          ProtectEdit(result)
    \/ \E fails \in BOOLEAN : ProtectReviews(fails)
    \/ SetupBranchProtectionReturn


(***************************************************************************)
(* scripts/create_repos_and_branches.py: set_repo_variables                *)
(***************************************************************************)

\* The keys of the dictionary the commands pass, in their order:
\* {"AWS_REGION": aws_region, "AWS_ACCOUNT_ID": aws_account_id}
VariableNames == <<"AWS_REGION", "AWS_ACCOUNT_ID">>

\* Values of --aws-region and --aws-account-id.
RegionValues == {"us-east-1", "eu-west-1"}
AccountValues == {"111122223333"}

\* A repository variable that does not exist.
NoVariable == "<no variable>"

\* The dictionary of one call.
VariablesDict(aws_region, aws_account_id) ==
    [n \in Items(VariableNames) |->
        IF n = "AWS_REGION" THEN aws_region ELSE aws_account_id]

VIdle ==
    /\ vpc = "idle"
    /\ vcalls = 0
    /\ variables = VariablesDict(NoVariable, NoVariable)
    /\ vidx = 0
    /\ repoVars = VariablesDict(NoVariable, NoVariable)
    /\ createCalled = {}
    /\ updateCalled = {}
    /\ printedFor = {}

\* The start of the model of set_repo_variables: each variable is absent
\* from the repository or holds an earlier value.
VInit ==
    /\ vpc = "idle"
    /\ vcalls = 0
    /\ variables = VariablesDict(NoVariable, NoVariable)
    /\ vidx = 0
    /\ repoVars \in [Items(VariableNames) -> {NoVariable, "us-east-1", "old"}]
    /\ createCalled = {}
    /\ updateCalled = {}
    /\ printedFor = {}

\* set_repo_variables(repo, variables) up to its loop.
SetRepoVariablesCall(aws_region, aws_account_id) ==
    /\ vpc \in {"idle", "done", "raised"}
    /\ vcalls < MaxVarCalls
    /\ vcalls' = vcalls + 1
    /\ variables' = VariablesDict(aws_region, aws_account_id)
    /\ vidx' = 1
    /\ vpc' = "create"
    /\ createCalled' = {}
    /\ updateCalled' = {}
    /\ printedFor' = {}
    /\ UNCHANGED repoVars
    /\ UNCHANGED othersV

\* GitHub's answers to repo.create_variable(name, value): a name that exists
\* gives 409; the call may also fail with another GithubException or with an
\* exception that is not a GithubException.
CreateVariableAnswers(name) ==
    IF repoVars[name] # NoVariable
       THEN {"409", "GithubException", "Exception"}
       ELSE {"created", "GithubException", "Exception"}

\* "if e.status == 409:" of the handler of the create call.
UpdatesExisting(answer) == answer = "409"

\* The try body and the handlers of the create call of one iteration of
\* "for name, value in variables.items()".
CreateVariable(answer) ==
    /\ vpc = "create"
    /\ vidx <= Len(VariableNames)
    /\ LET name == VariableNames[vidx] IN
         /\ answer \in CreateVariableAnswers(name)
         /\ createCalled' = createCalled \cup {name}
         /\ repoVars' = IF answer = "created"
                           THEN [repoVars EXCEPT ![name] = variables[name]]
                           ELSE repoVars
         /\ IF UpdatesExisting(answer)
               THEN /\ vpc' = "update"
                    /\ UNCHANGED <<vidx, printedFor>>
               ELSE /\ vpc' = "create"
                    /\ vidx' = vidx + 1
                    /\ printedFor' = IF answer = "created" THEN printedFor
                                     ELSE printedFor \cup {name}
    /\ UNCHANGED <<vcalls, variables, updateCalled>>
    /\ UNCHANGED othersV

\* What the inner "try: ... except GithubException as update_error:" lets
\* out of the function: an exception raised inside the handler of the create
\* call is caught by the inner handler only, never by the "except Exception"
\* that is a sibling of the handler it was raised in.
UpdateErrorEscapes(answer) == answer = "Exception"

\* repo.get_variable(name) and existing_var.edit(value) in the 409 handler.
UpdateVariable(answer) ==
    /\ vpc = "update"
    /\ LET name == VariableNames[vidx] IN
         /\ updateCalled' = updateCalled \cup {name}
         /\ repoVars' = IF answer = "updated"
                           THEN [repoVars EXCEPT ![name] = variables[name]]
                           ELSE repoVars
         /\ IF UpdateErrorEscapes(answer)
               THEN /\ vpc' = "raised"
                    /\ UNCHANGED <<vidx, printedFor>>
               ELSE /\ vpc' = "create"
                    /\ vidx' = vidx + 1
                    /\ printedFor' = IF answer = "updated" THEN printedFor
                                     ELSE printedFor \cup {name}
    /\ UNCHANGED <<vcalls, variables, createCalled>>
    /\ UNCHANGED othersV

\* The end of the loop: set_repo_variables returns.
SetRepoVariablesReturn ==
    /\ vpc = "create"
    /\ vidx > Len(VariableNames)
    /\ vpc' = "done"
    /\ UNCHANGED <<vcalls, variables, vidx, repoVars, createCalled,
                   updateCalled, printedFor>>
    /\ UNCHANGED othersV

VStep ==
    \/ \E aws_region \in RegionValues, aws_account_id \in AccountValues :
          SetRepoVariablesCall(aws_region, aws_account_id)
    \/ \E answer \in {"created", "409", "GithubException", "Exception"} :
          CreateVariable(answer)
    \/ \E answer \in {"updated", "GithubException", "Exception"} :
          UpdateVariable(answer)
    \/ SetRepoVariablesReturn


(***************************************************************************)
(* integration/config/utils.py: get_env_value, and the sources of the      *)
(* Settings model (model_config of project_settings.py)                    *)
(***************************************************************************)

\* A key that os.environ, or a .env file, does not hold; a .env file that
\* does not exist.
NoKey == "<no key>"
NoFile == "<no file>"

\* The values a source can give the key.
KeyValues == {"a", "b"}

\* ENV_FILES: 1 is the .env next to the module, 2 the .env of the project
\* root.
ENV_FILES == <<1, 2>>

\* dotenv_values(env_file) for a file that exists, looked up at the key.
DotenvValue(file) == file

\* get_env_value(key), uncached: os.environ first, then the .env files in
\* the order of ENV_FILES, the first file that holds the key wins.
RECURSIVE FirstFileValue(_, _)
FirstFileValue(files, i) ==
    IF i > Len(ENV_FILES) THEN None
    ELSE IF files[ENV_FILES[i]] = NoFile THEN FirstFileValue(files, i + 1)
    ELSE IF DotenvValue(files[ENV_FILES[i]]) # NoKey
            THEN DotenvValue(files[ENV_FILES[i]])
            ELSE FirstFileValue(files, i + 1)

get_env_value(env, files) ==
    IF env # NoKey THEN env ELSE FirstFileValue(files, 1)

\* The dotenv source of pydantic-settings with env_file=ENV_FILES: the files
\* that exist are read in order into one dictionary, each file overriding
\* the ones before it.
RECURSIVE DotenvSource(_, _, _)
DotenvSource(files, i, sofar) ==
    IF i > Len(ENV_FILES) THEN sofar
    ELSE IF files[ENV_FILES[i]] = NoFile \/ files[ENV_FILES[i]] = NoKey
            THEN DotenvSource(files, i + 1, sofar)
            ELSE DotenvSource(files, i + 1, files[ENV_FILES[i]])

\* What Settings() takes for a field: the environment variable, else the
\* dotenv source, else nothing (None here: the field's default applies).
SettingsValue(env, files) ==
    IF env # NoKey THEN env ELSE DotenvSource(files, 1, None)

EIdle ==
    /\ os_environ = NoKey
    /\ env_files = <<NoFile, NoFile>>
    /\ cache = NoObject
    /\ envCalls = 0
    /\ got = NoObject
    /\ resolved = NoObject

\* The start of the model of get_env_value: every combination of the key
\* present or absent in the environment and in each of the two files.
EInit ==
    /\ os_environ \in KeyValues \cup {NoKey}
    /\ env_files \in [1..2 -> KeyValues \cup {NoKey, NoFile}]
    /\ cache = NoObject
    /\ envCalls = 0
    /\ got = NoObject
    /\ resolved = NoObject

\* get_env_value(key) under @cache: the first call computes and stores the
\* result, later calls return what is stored.
GetEnvValueCall ==
    /\ envCalls < MaxEnvCalls
    /\ envCalls' = envCalls + 1
    /\ cache' = IF cache = NoObject
                   THEN Some(get_env_value(os_environ, env_files))
                   ELSE cache
    /\ got' = cache'
    /\ UNCHANGED <<os_environ, env_files, resolved>>
    /\ UNCHANGED othersE

\* settings = Settings(): the field named like the key is resolved from the
\* environment and the ENV_FILES files.
SettingsResolves ==
    /\ resolved = NoObject
    /\ resolved' = Some(SettingsValue(os_environ, env_files))
    /\ UNCHANGED <<os_environ, env_files, cache, envCalls, got>>
    /\ UNCHANGED othersE

EStep ==
    \/ GetEnvValueCall
    \/ SettingsResolves


(***************************************************************************)
(* integration/config/xray_config.py: the handle_async_request that        *)
(* configure_xray installs on AsyncInstrumentedTransport                   *)
(***************************************************************************)

\* The requests in flight on the event loop.
Requests == 1..MaxRequests

XIdle ==
    /\ xpc = [r \in Requests |-> "idle"]
    /\ subsegment = [r \in Requests |-> None]
    /\ aexits = [r \in Requests |-> 0]

\* The start of the model of handle_async_request: no request has been made.
XInit == XIdle

\* subsegment_context.__aenter__(): with a segment in the context a
\* subsegment is begun; without one (context_missing="IGNORE_ERROR") the
\* recorder gives None.
EnterSubsegment(r, hasSegment) ==
    /\ xpc[r] = "idle"
    /\ xpc' = [xpc EXCEPT ![r] = "try"]
    /\ subsegment' = [subsegment EXCEPT ![r] = IF hasSegment THEN "open" ELSE None]
    /\ UNCHANGED aexits
    /\ UNCHANGED othersX

\* The subsegment is ended from elsewhere while the request is under way
\* (aws-xray-sdk-python issue 164): later calls on it raise
\* AlreadyEndedException.
EndedElsewhere(r) ==
    /\ xpc[r] \in {"try", "await"}
    /\ subsegment[r] = "open"
    /\ subsegment' = [subsegment EXCEPT ![r] = "ended"]
    /\ UNCHANGED <<xpc, aexits>>
    /\ UNCHANGED othersX

\* The handlers of the try statement: "except Exception" is the only one
\* (there is no else or finally clause), and it calls __aexit__.
CallsAexit(how) == how = "Exception"

\* subsegment_context.__aexit__(...): an open subsegment is ended; for a
\* subsegment ended before, AlreadyEndedException is raised and passed over.
Aexit(r) ==
    /\ aexits' = [aexits EXCEPT ![r] = @ + 1]
    /\ subsegment' = [subsegment EXCEPT ![r] = IF @ = "open" THEN "ended" ELSE @]

\* How the try statement is left: "return" (return response), "Exception"
\* (an exception caught by "except Exception" and raised again), or
\* "CancelledError" (the awaiting task is cancelled: a BaseException).
LeaveTry(r, how) ==
    /\ xpc' = [xpc EXCEPT ![r] = how]
    /\ IF CallsAexit(how)
          THEN Aexit(r)
          ELSE UNCHANGED <<subsegment, aexits>>

\* put_http_meta(METHOD), put_http_meta(URL), inject_trace_header: an
\* AlreadyEndedException is passed over, any other exception leaves the try
\* statement.
PutRequestMeta(r, raises) ==
    /\ xpc[r] = "try"
    /\ IF raises /\ subsegment[r] # None
          THEN LeaveTry(r, "Exception")
          ELSE /\ xpc' = [xpc EXCEPT ![r] = "await"]
               /\ UNCHANGED <<subsegment, aexits>>
    /\ UNCHANGED othersX

\* await self._wrapped_transport.handle_async_request(request), then
\* put_http_meta(STATUS) and "return response", or the exception the
\* wrapped transport (or put_http_meta) raised, or the cancellation of the
\* awaiting task.
WrappedTransport(r, how) ==
    /\ xpc[r] = "await"
    /\ LeaveTry(r, how)
    /\ UNCHANGED othersX

XStep ==
    \/ \E r \in Requests, hasSegment \in BOOLEAN : EnterSubsegment(r, hasSegment)
    \/ \E r \in Requests : EndedElsewhere(r)
    \/ \E r \in Requests, raises \in BOOLEAN : PutRequestMeta(r, raises)
    \/ \E r \in Requests, how \in {"return", "Exception", "CancelledError"} :
          WrappedTransport(r, how)


(***************************************************************************)
(* integration/config/sentry_config.py: before_send                        *)
(***************************************************************************)

\* s.split(sep) for a one-character sep: the pieces between the separators,
\* empty pieces included.
RECURSIVE Split(_, _)
Split(s, sep) ==
    IF \E i \in 1..Len(s) : s[i] = sep
       THEN LET i == CHOOSE k \in 1..Len(s) :
                        s[k] = sep /\ \A j \in 1..(k - 1) : s[j] # sep
            IN <<SubSeq(s, 1, i - 1)>> \o Split(SubSeq(s, i + 1, Len(s)), sep)
       ELSE <<s>>

\* parts[-2:]
LastTwo(parts) ==
    IF Len(parts) <= 2 THEN parts ELSE SubSeq(parts, Len(parts) - 1, Len(parts))

\* Class names of httpx.HTTPError subclasses.
ConnectErrorName == <<"C", "o", "n", "n", "e", "c", "t", "E", "r", "r", "o", "r">>
ReadTimeoutName == <<"R", "e", "a", "d", "T", "i", "m", "e", "o", "u", "t">>
HttpxClassNames == {ConnectErrorName, ReadTimeoutName}

\* Request URLs, as text.
UrlApiExample == <<"h", "t", "t", "p", "s", ":", "/", "/", "a", "p", "i", ".", "e", "x", "a", "m", "p", "l", "e", ".", "c", "o", "m", "/", "v", "1", "/", "i", "t", "e", "m", "s">>
UrlWwwExample == <<"h", "t", "t", "p", "s", ":", "/", "/", "w", "w", "w", ".", "e", "x", "a", "m", "p", "l", "e", ".", "c", "o", "m", "/">>
UrlExample == <<"h", "t", "t", "p", "s", ":", "/", "/", "e", "x", "a", "m", "p", "l", "e", ".", "c", "o", "m">>
UrlOther == <<"h", "t", "t", "p", "s", ":", "/", "/", "a", "p", "i", ".", "o", "t", "h", "e", "r", ".", "o", "r", "g", "/", "x">>
UrlTexts == {UrlApiExample, UrlWwwExample, UrlExample, UrlOther}

\* A sentry_fingerprint given to a KicksawIntegrationError.
CustomFingerprint == <<"s", "a", "l", "e", "s", "f", "o", "r", "c", "e", "-", "t", "i", "m", "e", "o", "u", "t">>

\* The exceptions a hint can carry. kind "none" is a hint without exc_info.
\* An httpx.HTTPError has its request set or not (reading .request of an
\* error without one raises RuntimeError); httpx.Request stores its url as
\* an httpx.URL object, url_type "str" stands for a url attribute that was
\* assigned a plain string afterwards.
NoText == << >>
ExceptionOf(kind, cls, report, fp, request, url_type, url) ==
    [kind |-> kind, cls |-> cls, report_in_sentry |-> report,
     sentry_fingerprint |-> fp, request |-> request, url_type |-> url_type,
     url |-> url]

HintExceptions ==
    {ExceptionOf("none", NoText, TRUE, NoObject, "unset", "URL", NoText),
     ExceptionOf("Exception", NoText, TRUE, NoObject, "unset", "URL", NoText)}
    \cup {ExceptionOf("KicksawIntegrationError", NoText, report, fp, "unset",
                      "URL", NoText) :
             report \in BOOLEAN, fp \in {NoObject, Some(CustomFingerprint)}}
    \cup {ExceptionOf("httpx.HTTPError", cls, TRUE, NoObject, "unset", "URL",
                      NoText) : cls \in {ConnectErrorName}}
    \cup {ExceptionOf("httpx.HTTPError", cls, TRUE, NoObject, "Request",
                      url_type, url) :
             cls \in HttpxClassNames, url_type \in {"URL", "str"},
             url \in UrlTexts}

\* An event without a "fingerprint" key.
NoFingerprint == << >>

\* isinstance(exception.request.url, str)
UrlIsStr(exception) == exception.url_type = "str"

\* base_url = ".".join(exception.request.url.split("/")[2].split(".")[-2:])
BaseUrl(url) == Join(<<".">>, LastTwo(Split(Split(url, "/")[3], ".")))

\* "-".join([exception.__class__.__name__, base_url])
HttpxFingerprint(exception) ==
    Join(<<"-">>, <<exception.cls, BaseUrl(exception.url)>>)

\* A fingerprint an event carries before before_send sees it.
EventFingerprint == <<"{", "{", "d", "e", "f", "a", "u", "l", "t", "}", "}">>

\* The events passed to before_send, as the value of their "fingerprint"
\* key (NoFingerprint: the key is absent).
Events == {NoFingerprint, <<EventFingerprint>>}

DropsEvent_Never(exception) == FALSE

\* "if not exception.metadata.report_in_sentry: return None"
DropsEvent(exception) == ~exception.report_in_sentry

\* "if exception.metadata.sentry_fingerprint is not None:"
HasSentryFingerprint(exception) == exception.sentry_fingerprint # NoObject

\* before_send(event, hint): what is returned (the event, with its
\* fingerprint; None: the event is dropped) or that the call raised.
before_send(event, exception) ==
    CASE exception.kind = "none" ->
            [status |-> "event", fingerprint |-> event]
      [] exception.kind = "KicksawIntegrationError" ->
            IF DropsEvent(exception)
               THEN [status |-> "None", fingerprint |-> event]
               ELSE IF HasSentryFingerprint(exception)
                       THEN [status |-> "event",
                             fingerprint |-> <<The(exception.sentry_fingerprint)>>]
                       ELSE [status |-> "event", fingerprint |-> event]
      [] exception.kind = "httpx.HTTPError" ->
            IF exception.request = "unset"
               THEN [status |-> "raised", fingerprint |-> event]
               ELSE IF exception.request = "Request" /\ UrlIsStr(exception)
                       THEN IF Len(Split(exception.url, "/")) < 3
                               THEN [status |-> "raised", fingerprint |-> event]
                               ELSE [status |-> "event",
                                     fingerprint |-> <<HttpxFingerprint(exception)>>]
                       ELSE [status |-> "event", fingerprint |-> event]
      [] OTHER -> [status |-> "event", fingerprint |-> event]

YIdle ==
    /\ sentryLog = << >>

\* The start of the model of before_send: no event has been passed to it.
YInit == YIdle

\* The SDK calls before_send(event, hint) for one more event.
BeforeSend(event, exception) ==
    /\ Len(sentryLog) < MaxEvents
    /\ sentryLog' = Append(sentryLog,
                           [event |-> event,
                            exception |-> exception,
                            result |-> before_send(event, exception)])
    /\ UNCHANGED othersY

YStep ==
    \E event \in Events, exception \in HintExceptions :
        BeforeSend(event, exception)


(***************************************************************************)
(* integration/config/project_settings.py: the SENTRY_DSN property, and    *)
(* configure_sentry of integration/config/sentry_config.py                 *)
(***************************************************************************)

Testing == <<"t", "e", "s", "t", "i", "n", "g">>

\* A DSN as Sentry hands it out.
DsnUrl == <<"h", "t", "t", "p", "s", ":", "/", "/", "k", "@", "o", ".", "i", "o", "/", "1">>

\* What get_env_value("SENTRY_DSN") can return: None (NoObject) or a string.
DsnEnvValues ==
    {NoObject,
     Some(<< >>),
     Some(<<" ", "N", "U", "L", "L", " ">>),
     Some(<<"N", "o", "n", "e">>),
     Some(<<"\t", "n", "o", "n", "e">>),
     Some(DsnUrl)}

\* The value of the "dsn" key of the secret: JSON null (NoObject) or a
\* string.
DsnSecretValues ==
    {NoObject,
     Some(<<" ", " ">>),
     Some(<<"n", "u", "l", "l">>),
     Some(<<" ", "n", "O", "n", "E">>),
     Some(<<"n", "o", "n", "e", "\n">>),
     Some(DsnUrl)}

\* The dictionaries get_secret can return for the secret.
SecretDicts ==
    {[k \in {"dsn"} |-> v] : v \in DsnSecretValues}
        \cup {[k \in {"key"} |-> Some(DsnUrl)]}

\* "-".join([self.PROJECT_SLUG, "shared-resources", "sentry-dsn"])
SentryDsnSecretName(slug) ==
    Join(<<"-">>,
         <<slug,
           <<"s", "h", "a", "r", "e", "d", "-", "r", "e", "s", "o", "u", "r", "c", "e", "s">>,
           <<"s", "e", "n", "t", "r", "y", "-", "d", "s", "n">>>>)

\* The project slugs of the settings objects the model follows.
DsnSlugs == {DefaultProjectSlug, <<"a", "c", "m", "e">>}

\* Secrets Manager: no secret at all, or one secret under the name built
\* from one of the slugs.
SecretStores ==
    {<< >>} \cup {(SentryDsnSecretName(slug) :> d) :
                     slug \in DsnSlugs, d \in SecretDicts}

\* s.strip(" "): leading and trailing spaces removed, nothing else.
RECURSIVE StripSpaces(_)
StripSpaces(s) ==
    IF s = << >> THEN s
    ELSE IF Head(s) = " " THEN StripSpaces(Tail(s))
    ELSE IF s[Len(s)] = " " THEN StripSpaces(SubSeq(s, 1, Len(s) - 1))
    ELSE s

IsUnsetDsn_CaseSensitive(value) ==
    StripSpaces(value) \in {<< >>, <<"n", "u", "l", "l">>, <<"n", "o", "n", "e">>}

\* value.strip(" ").lower() in {"", "null", "none"}
IsUnsetDsn(value) ==
    Lower(StripSpaces(value)) \in {<< >>, <<"n", "u", "l", "l">>, <<"n", "o", "n", "e">>}

\* HttpUrl(value): the URL, or a ValidationError for a string that is not an
\* http(s) URL.
HttpUrl(value) ==
    IF \/ StartsWith(value, <<"h", "t", "t", "p", "s", ":", "/", "/">>)
             /\ Len(value) > 8
       \/ StartsWith(value, <<"h", "t", "t", "p", ":", "/", "/">>)
             /\ Len(value) > 7
       THEN [status |-> "HttpUrl", value |-> Some(value)]
       ELSE [status |-> "raised", value |-> NoObject]

ReturnsNone == [status |-> "None", value |-> NoObject]
Raises == [status |-> "raised", value |-> NoObject]

\* Settings.SENTRY_DSN: what the property returns (or that it raised), and
\* the names get_secret was called with on the way.
SENTRY_DSN(self, env_value, store) ==
    IF env_value # NoObject
       THEN [result |-> IF IsUnsetDsn(The(env_value))
                           THEN ReturnsNone
                           ELSE HttpUrl(The(env_value)),
             get_secret |-> << >>]
       ELSE IF self.ENVIRONMENT = Testing
               THEN [result |-> ReturnsNone, get_secret |-> << >>]
               ELSE LET secret_name == SentryDsnSecretName(self.PROJECT_SLUG)
                    IN [result |->
                           IF secret_name \notin DOMAIN store
                              THEN Raises
                              ELSE IF "dsn" \notin DOMAIN store[secret_name]
                                      THEN Raises
                                      ELSE LET sentry_dsn == store[secret_name]["dsn"]
                                           IN IF sentry_dsn = NoObject
                                                 THEN ReturnsNone
                                                 ELSE IF IsUnsetDsn(The(sentry_dsn))
                                                         THEN ReturnsNone
                                                         ELSE HttpUrl(The(sentry_dsn)),
                        get_secret |-> <<secret_name>>]

ZIdle ==
    /\ dsnSettings = [ENVIRONMENT |-> Testing, PROJECT_SLUG |-> DefaultProjectSlug]
    /\ dsnEnvValue = NoObject
    /\ secretStore = << >>
    /\ dsnReads = 0
    /\ sentryDsn = NoObject
    /\ secretCalls = << >>
    /\ sentryInits = << >>

\* A settings object, what the environment holds under SENTRY_DSN and what
\* Secrets Manager holds; nothing has read the DSN yet.
ZInit ==
    /\ dsnSettings \in [ENVIRONMENT : Environments, PROJECT_SLUG : DsnSlugs]
    /\ dsnEnvValue \in DsnEnvValues
    /\ secretStore \in SecretStores
    /\ dsnReads = 0
    /\ sentryDsn = NoObject
    /\ secretCalls = << >>
    /\ sentryInits = << >>

\* settings.SENTRY_DSN is read.
ReadSentryDsn ==
    /\ dsnReads < MaxDsnReads
    /\ dsnReads' = dsnReads + 1
    /\ LET r == SENTRY_DSN(dsnSettings, dsnEnvValue, secretStore)
       IN /\ sentryDsn' = Some(r.result)
          /\ secretCalls' = secretCalls \o r.get_secret
    /\ UNCHANGED <<dsnSettings, dsnEnvValue, secretStore, sentryInits>>
    /\ UNCHANGED othersZ

\* configure_sentry(): the property is read for the condition and, when
\* Sentry is initialised, once more for the dsn argument.
ConfigureSentry ==
    /\ dsnReads < MaxDsnReads
    /\ dsnReads' = dsnReads + 1
    /\ LET r == SENTRY_DSN(dsnSettings, dsnEnvValue, secretStore)
           initialises == /\ r.result.status = "HttpUrl"
                          /\ dsnSettings.ENVIRONMENT # Testing
       IN /\ sentryDsn' = Some(r.result)
          /\ secretCalls' = IF initialises
                               THEN secretCalls \o r.get_secret \o r.get_secret
                               ELSE secretCalls \o r.get_secret
          /\ sentryInits' =
                IF initialises
                   THEN Append(sentryInits,
                               [dsn |-> The(r.result.value),
                                environment |-> dsnSettings.ENVIRONMENT])
                   ELSE sentryInits
    /\ UNCHANGED <<dsnSettings, dsnEnvValue, secretStore>>
    /\ UNCHANGED othersZ

ZStep ==
    \/ ReadSentryDsn
    \/ ConfigureSentry


(***************************************************************************)
(* integration/utils/aws.py: the client cache of Boto3Clients              *)
(***************************************************************************)

\* settings.AWS_REGION of the process that imports the module.
Regions == {"us-west-2", "eu-central-1"}

\* Config(region_name=settings.AWS_REGION, retries={...})
ClientConfig(region) ==
    [region_name |-> region,
     retries |-> [max_attempts |-> max_attempts, mode |-> "standard"]]

BIdle ==
    /\ cached = NoClients
    /\ sharedConfig = ClientConfig("us-west-2")
    /\ clientsMade = 0
    /\ callsSinceReset = [svc \in Services |-> << >>]
    /\ returned = [svc \in Services |-> << >>]
    /\ retired = {}
    /\ resets = 0
    /\ lastCall = "__init__"
    /\ configBefore = ClientConfig("us-west-2")

\* BOTO3_CLIENTS = Boto3Clients(): the four clients are None and the shared
\* config is built from the settings.
BInit ==
    /\ cached = NoClients
    /\ sharedConfig \in {ClientConfig(region) : region \in Regions}
    /\ clientsMade = 0
    /\ callsSinceReset = [svc \in Services |-> << >>]
    /\ returned = [svc \in Services |-> << >>]
    /\ retired = {}
    /\ resets = 0
    /\ lastCall = "__init__"
    /\ configBefore = sharedConfig

\* BOTO3_CLIENTS.<svc>_client is read: boto3.client(svc, config=self.config)
\* is called when nothing is cached, and the cached client is returned.
ReadClient(svc) ==
    /\ Len(returned[svc]) < MaxReads
    /\ clientsMade < MaxClientObjects
    /\ cached' = CachedClient(cached, svc, clientsMade + 1)
    /\ clientsMade' = IF cached[svc] # cached'[svc] THEN clientsMade + 1 ELSE clientsMade
    /\ callsSinceReset' =
          IF cached[svc] # cached'[svc]
             THEN [callsSinceReset EXCEPT ![svc] = Append(@, [service |-> svc, config |-> sharedConfig])]
             ELSE callsSinceReset
    /\ returned' = [returned EXCEPT ![svc] = Append(@, cached'[svc])]
    /\ lastCall' = svc
    /\ configBefore' = sharedConfig
    /\ UNCHANGED <<sharedConfig, retired, resets>>
    /\ UNCHANGED othersB

\* BOTO3_CLIENTS.reset()
ResetClients ==
    /\ resets < MaxResets
    /\ resets' = resets + 1
    /\ cached' = Reset(cached)
    /\ retired' = retired \cup UNION {{returned[svc][i] : i \in 1..Len(returned[svc])} : svc \in Services}
    /\ returned' = [svc \in Services |-> << >>]
    /\ callsSinceReset' = [svc \in Services |-> << >>]
    /\ lastCall' = "reset"
    /\ configBefore' = sharedConfig
    /\ UNCHANGED <<sharedConfig, clientsMade>>
    /\ UNCHANGED othersB

BStep ==
    \/ \E svc \in Services : ReadClient(svc)
    \/ ResetClients


(***************************************************************************)
(* infrastructure/stacks/main.py: the queue and the bucket MainStack        *)
(* declares from the resolved settings                                     *)
(***************************************************************************)

\* Queues.__init__ and Buckets.__init__: the names of the "messages" queue
\* (what QueueWithDLQ makes of its arguments) and of the "storage" bucket.
DeclaredNames(settings) ==
    LET a == MessagesQueueArgs(settings)
    IN [queue |-> MainQueue(a, DeadLetterQueue(a)).queue_name,
        bucket |-> settings.S3_BUCKET_STORAGE]

\* MainStack(...) is constructed in a process whose settings resolved.
DeclareMainStack ==
    /\ spc = "done"
    /\ declared = NoObject
    /\ declared' = Some(DeclaredNames(data))
    /\ UNCHANGED <<spc, environ, data>>
    /\ UNCHANGED othersS

SStep ==
    \/ ValidateProjectSlug
    \/ ValidateEnvironment
    \/ ValidateAwsResourceSuffix
    \/ ValidateS3BucketStorage
    \/ ValidateSqsQueueMessages
    \/ DeclareMainStack


(***************************************************************************)
(* Specifications: one per subsystem.                                      *)
(***************************************************************************)
InitHandler == HIdle /\ OIdle /\ GIdle /\ DIdle /\ SIdle /\ FIdle /\ QIdle /\ PIdle /\ VIdle /\ EIdle /\ XIdle /\ YIdle /\ ZIdle /\ BIdle
InitOidc == HIdle /\ OIdle /\ GIdle /\ DIdle /\ SIdle /\ FIdle /\ QIdle /\ PIdle /\ VIdle /\ EIdle /\ XIdle /\ YIdle /\ ZIdle /\ BIdle
InitBranches == HIdle /\ OIdle /\ GInit /\ DIdle /\ SIdle /\ FIdle /\ QIdle /\ PIdle /\ VIdle /\ EIdle /\ XIdle /\ YIdle /\ ZIdle /\ BIdle
InitSettings == HIdle /\ OIdle /\ GIdle /\ DIdle /\ SInit /\ FIdle /\ QIdle /\ PIdle /\ VIdle /\ EIdle /\ XIdle /\ YIdle /\ ZIdle /\ BIdle
InitFixture == HIdle /\ OIdle /\ GIdle /\ DIdle /\ SIdle /\ FInit /\ QIdle /\ PIdle /\ VIdle /\ EIdle /\ XIdle /\ YIdle /\ ZIdle /\ BIdle
InitQueue == HIdle /\ OIdle /\ GIdle /\ DIdle /\ SIdle /\ FIdle /\ QInit /\ PIdle /\ VIdle /\ EIdle /\ XIdle /\ YIdle /\ ZIdle /\ BIdle
InitDelete == HIdle /\ OIdle /\ GIdle /\ DInit /\ SIdle /\ FIdle /\ QIdle /\ PIdle /\ VIdle /\ EIdle /\ XIdle /\ YIdle /\ ZIdle /\ BIdle
InitSetup == HIdle /\ OIdle /\ GIdle /\ DIdle /\ SIdle /\ FIdle /\ QIdle /\ PInit /\ VIdle /\ EIdle /\ XIdle /\ YIdle /\ ZIdle /\ BIdle
InitVariables == HIdle /\ OIdle /\ GIdle /\ DIdle /\ SIdle /\ FIdle /\ QIdle /\ PIdle /\ VInit /\ EIdle /\ XIdle /\ YIdle /\ ZIdle /\ BIdle
InitEnv == HIdle /\ OIdle /\ GIdle /\ DIdle /\ SIdle /\ FIdle /\ QIdle /\ PIdle /\ VIdle /\ EInit /\ XIdle /\ YIdle /\ ZIdle /\ BIdle
InitXray == HIdle /\ OIdle /\ GIdle /\ DIdle /\ SIdle /\ FIdle /\ QIdle /\ PIdle /\ VIdle /\ EIdle /\ XInit /\ YIdle /\ ZIdle /\ BIdle
InitSentry == HIdle /\ OIdle /\ GIdle /\ DIdle /\ SIdle /\ FIdle /\ QIdle /\ PIdle /\ VIdle /\ EIdle /\ XIdle /\ YInit /\ ZIdle /\ BIdle
InitDsn == HIdle /\ OIdle /\ GIdle /\ DIdle /\ SIdle /\ FIdle /\ QIdle /\ PIdle /\ VIdle /\ EIdle /\ XIdle /\ YIdle /\ ZInit /\ BIdle
InitClients == HIdle /\ OIdle /\ GIdle /\ DIdle /\ SIdle /\ FIdle /\ QIdle /\ PIdle /\ VIdle /\ EIdle /\ XIdle /\ YIdle /\ ZIdle /\ BInit

SpecHandler == InitHandler /\ [][HStep]_vars
SpecOidc == InitOidc /\ [][OStep]_vars
SpecBranches == InitBranches /\ [][GStep]_vars
SpecDelete == InitDelete /\ [][DStep]_vars
SpecSettings == InitSettings /\ [][SStep]_vars
SpecFixture == InitFixture /\ [][FStep]_vars
SpecQueue == InitQueue /\ [][QStep]_vars
SpecSetup == InitSetup /\ [][PStep]_vars
SpecVariables == InitVariables /\ [][VStep]_vars
SpecEnv == InitEnv /\ [][EStep]_vars
SpecXray == InitXray /\ [][XStep]_vars
SpecSentry == InitSentry /\ [][YStep]_vars
SpecDsn == InitDsn /\ [][ZStep]_vars
SpecClients == InitClients /\ [][BStep]_vars

(***************************************************************************)
(* Claims about the handler.                                               *)
(***************************************************************************)

\* C1: once execution.create_all() has been started as a shielded task, the
\* task runs to completion (it ends by returning or by raising its own
\* exception) even if the handler is cancelled or is failing: when
\* asyncio.run has finished, a started task is never left cancelled.
C1_ShieldedWriteCompletes ==
    (hpc = "closed" /\ taskStarts > 0) => task \in {"done", "failed"}

\* C1, the part that holds: a handler that is failing with an exception of
\* its body, and is not cancelled, ends only after the task has completed.
C1_FailingHandlerAwaitsWrite ==
    (hpc \in {"exit", "closed"} /\ bodyErrs > 0 /\ cancels = 0)
        => task \in {"done", "failed"}

C1_CancelledDuringWrite ==
    hpc = "closed" /\ outcome = "cancelled" /\ task = "cancelled"

\* C2: every invocation that enters the try block starts create_all()
\* exactly once, only after the body (and the except* block) has finished,
\* on the normal path and on the exception path alike.
C2_WriteStartedExactlyOnce ==
    /\ taskStarts <= 1
    /\ hpc \in {"body", "except", "finally"} => (taskStarts = 0 /\ task = "none")
    /\ hpc \in {"shield", "exit", "closed"} => taskStarts = 1

C2_Witness ==
    hpc = "closed" /\ bodyErrs > 0 /\ taskStarts = 1 /\ outcome = "body"

\* C3: when the body raises, error_message is set before the record is
\* written: the text of the exception when exactly one was raised, otherwise
\* 'Execution failed with N errors...' with each exception logged; and the
\* exception is raised on to the caller, never swallowed.
C3_FailureAggregatedAndReraised ==
    (bodyErrs > 0 /\ hpc \in {"finally", "shield", "exit", "closed"}) =>
        /\ bodyErrs = 1 => (error_message = <<"exception", 1>> /\ errorLogs = 0)
        /\ bodyErrs > 1 => (error_message = <<"failed", bodyErrs>>
                             /\ errorLogs = bodyErrs)
        /\ pendingExc = "body"
        /\ taskStarts = 1 => recorded = error_message
        /\ hpc \in {"exit", "closed"} =>
              /\ outcome # "returned"
              /\ (task = "done" /\ cancels = 0) => outcome = "body"

C3_Witness ==
    hpc = "closed" /\ bodyErrs = MaxErrs /\ outcome = "body"
        /\ recorded = <<"failed", MaxErrs>>


(***************************************************************************)
(* Claims about the OIDC role script.                                      *)
(***************************************************************************)

\* C4: the script is idempotent by retry: whatever earlier complete or
\* partial runs left behind, a run of main() that meets no error other than
\* EntityAlreadyExists ends with the role existing, the policy existing and
\* the policy attached to the role; EntityAlreadyExists on create_role and
\* create_policy is no failure, and the existing policy's ARN is looked up.
C4_IdempotentByRetry ==
    /\ (opc = "done" /\ ~runFailed) =>
          /\ roleExists /\ policyExists /\ attached
          /\ oresult = "completed"
          /\ policy_arn = PolicyArn
          /\ startState[1] => roleStep = "exists"
          /\ startState[2] => arnSource = "lookup"
    /\ (opc = "attach_role_policy" /\ startState[2]) =>
          (arnSource = "lookup" /\ policy_arn = PolicyArn)
    /\ startState[1] => roleExists
    /\ startState[2] => policyExists
    /\ startState[3] => attached

C4_Witness ==
    /\ opc = "done" /\ ~runFailed /\ oruns = 3
    /\ startState = <<TRUE, TRUE, FALSE>>
    /\ attached

(***************************************************************************)
(* Claims about the GitHub provisioning commands.                          *)
(***************************************************************************)

\* C5: create_branches and the branch step of create_repo_with_branches
\* create a ref, from the source branch's SHA, only for a requested branch
\* that does not exist; a branch that exists is skipped (no create_git_ref
\* call follows a lookup that found it) and is never re-created or moved, so
\* a command run when the requested branches exist creates no new ref.
C5_ExistingBranchesSkipped ==
    gpc \in {"loop", "done"} =>
        /\ \A b \in BranchNames :
              /\ refsAtStart[b] # 0 => refs[b] = refsAtStart[b]
              /\ refs[b] # refsAtStart[b] =>
                    /\ \E i \in 1..Len(branch_list) : branch_list[i] = b
                    /\ refs[b] = source_sha
                    /\ source_sha # 0
        /\ \A c \in createCalls : c.lookup = "raised" /\ c.sha = source_sha
        /\ (\A i \in 1..Len(branch_list) : refsAtStart[branch_list[i]] # 0)
              => refs = refsAtStart

\* The second run of create_branches with the same --branches option, after
\* main has moved on: the branch of the first run is found and left alone.
C5_Witness ==
    /\ gpc = "done" /\ gruns = 2 /\ gresult = 0
    /\ gcmd = "create_branches"
    /\ sameBranches
    /\ branch_list = <<"staging", "development">>
    /\ foundRefs = {"staging", "development"}
    /\ refs = [main |-> 2, staging |-> 1, development |-> 1]
    /\ source_sha = 2

\* C6: with confirmation required, repo.delete() is called only if the text
\* typed at the prompt equals the repository name exactly; on any other
\* input the command returns 1 and the repository is not deleted; and a
\* repository that is not found in the organization is never deleted.
C6_DeleteOnlyWhenConfirmed ==
    /\ \A r \in deleteCalls :
          /\ r = repo_name /\ repoFound /\ r \in orgAtStart
          /\ confirm => confirmation = repo_name
    /\ (dpc = "done" /\ confirm /\ confirmation # None
            /\ confirmation # repo_name) =>
          (dresult = 1 /\ deleteCalls = {} /\ orgRepos = orgAtStart)
    /\ (dpc = "done" /\ ~repoFound) =>
          (dresult = 1 /\ deleteCalls = {} /\ orgRepos = orgAtStart)
    /\ orgAtStart \ orgRepos \subseteq deleteCalls

\* A mistyped name (trailing blank) refuses a deletion that --confirm asked
\* about, after an earlier command deleted the other repository.
C6_Witness ==
    /\ dpc = "done" /\ druns = 2 /\ confirm
    /\ repo_name = "repo-a" /\ confirmation = "repo-a "
    /\ dresult = 1 /\ orgRepos = {"repo-a"}

(***************************************************************************)
(* Claims about the settings object.                                       *)
(***************************************************************************)

\* C7: AWS_RESOURCE_SUFFIX resolves from its inputs: a supplied value other
\* than '<changeme>' is kept unchanged; left unset (the placeholder) it
\* resolves to the value of ENVIRONMENT.
C7_SuffixResolved ==
    spc \in {"S3_BUCKET_STORAGE", "SQS_QUEUE_MESSAGES", "done"} =>
        /\ environ.AWS_RESOURCE_SUFFIX \notin {Unset, Changeme}
              => data.AWS_RESOURCE_SUFFIX = environ.AWS_RESOURCE_SUFFIX
        /\ environ.AWS_RESOURCE_SUFFIX \in {Unset, Changeme}
              => /\ data.AWS_RESOURCE_SUFFIX = environ.ENVIRONMENT
                 /\ data.AWS_RESOURCE_SUFFIX \in Environments

C7_Witness ==
    /\ spc = "done"
    /\ environ.AWS_RESOURCE_SUFFIX = Unset
    /\ data.AWS_RESOURCE_SUFFIX = <<"s", "t", "a", "g", "i", "n", "g">>

\* C8: S3_BUCKET_STORAGE and SQS_QUEUE_MESSAGES resolve from their inputs: a
\* supplied value other than '<changeme>' is kept; otherwise the bucket is
\* '<PROJECT_SLUG>-<resolved AWS_RESOURCE_SUFFIX>-storage' and the queue
\* '<PROJECT_SLUG>-<resolved AWS_RESOURCE_SUFFIX>-messages', and a derived
\* queue name never ends with '.fifo'.
C8_BucketAndQueueResolved ==
    spc = "done" =>
        /\ environ.S3_BUCKET_STORAGE \notin {Unset, Changeme}
              => data.S3_BUCKET_STORAGE = environ.S3_BUCKET_STORAGE
        /\ environ.S3_BUCKET_STORAGE \in {Unset, Changeme}
              => data.S3_BUCKET_STORAGE =
                    data.PROJECT_SLUG \o <<"-">> \o data.AWS_RESOURCE_SUFFIX
                       \o <<"-", "s", "t", "o", "r", "a", "g", "e">>
        /\ environ.SQS_QUEUE_MESSAGES \notin {Unset, Changeme}
              => data.SQS_QUEUE_MESSAGES = environ.SQS_QUEUE_MESSAGES
        /\ environ.SQS_QUEUE_MESSAGES \in {Unset, Changeme}
              => /\ data.SQS_QUEUE_MESSAGES =
                       data.PROJECT_SLUG \o <<"-">> \o data.AWS_RESOURCE_SUFFIX
                          \o <<"-", "m", "e", "s", "s", "a", "g", "e", "s">>
                 /\ ~EndsWith(data.SQS_QUEUE_MESSAGES, <<".", "f", "i", "f", "o">>)

\* The defaults in the testing environment:
\* salesforce-integration-testing-storage / -messages.
C8_Witness ==
    /\ spc = "done"
    /\ environ.S3_BUCKET_STORAGE = Unset
    /\ environ.SQS_QUEUE_MESSAGES = Unset
    /\ data.S3_BUCKET_STORAGE = <<"s", "a", "l", "e", "s", "f", "o", "r", "c", "e", "-", "i", "n", "t", "e", "g", "r", "a", "t", "i", "o", "n", "-", "t", "e", "s", "t", "i", "n", "g", "-", "s", "t", "o", "r", "a", "g", "e">>
    /\ data.SQS_QUEUE_MESSAGES = <<"s", "a", "l", "e", "s", "f", "o", "r", "c", "e", "-", "i", "n", "t", "e", "g", "r", "a", "t", "i", "o", "n", "-", "t", "e", "s", "t", "i", "n", "g", "-", "m", "e", "s", "s", "a", "g", "e", "s">>

(***************************************************************************)
(* Claims about the test fixture.                                          *)
(***************************************************************************)

\* C9: for every test the fixture runs inside the AWS mock: it resets
\* BOTO3_CLIENTS, then creates the bucket settings.S3_BUCKET_STORAGE and the
\* queue settings.SQS_QUEUE_MESSAGES (FIFO exactly when the name ends with
\* '.fifo') before the test body runs, and resets BOTO3_CLIENTS again after
\* the test, so that no client made in one test's mock is used by the next.
C9_FixtureOrderAndFreshClients ==
    /\ fpc = "test" =>
          /\ mockId = testNo /\ mockId # 0
          /\ fsteps = <<"reset", "create_bucket", "create_queue">>
          /\ fsettings.S3_BUCKET_STORAGE \in mockBuckets
          /\ \E q \in mockQueues :
                /\ q.QueueName = fsettings.SQS_QUEUE_MESSAGES
                /\ q.FifoQueue = "true" <=>
                      (Len(q.QueueName) >= 5 /\
                       SubSeq(q.QueueName, Len(q.QueueName) - 4, Len(q.QueueName))
                          = <<".", "f", "i", "f", "o">>)
                /\ q.FifoQueue \in {"true", "false"}
    /\ (fpc = "exit" /\ Len(fsteps) >= 4) =>
          /\ fsteps = <<"reset", "create_bucket", "create_queue", "test", "reset">>
          /\ clients = NoClients
    /\ \A u \in uses : u.test = testNo /\ u.mock = testNo
    /\ \A svc \in Services :
          (clients[svc] # 0 /\ fpc \notin {"idle", "exit", "reset"})
             => clients[svc] = mockId

\* The third test of a session runs with a FIFO queue name; the fixture has
\* made the s3 and sqs clients, the test body a dynamodb client, all in the
\* third mock.
C9_Witness ==
    /\ fpc = "test" /\ testNo = 3
    /\ fsettings.SQS_QUEUE_MESSAGES = <<"j", "o", "b", "s", ".", "f", "i", "f", "o">>
    /\ [QueueName |-> <<"j", "o", "b", "s", ".", "f", "i", "f", "o">>, VisibilityTimeout |-> "900", FifoQueue |-> "true"]
          \in mockQueues
    /\ clients["s3"] = 3 /\ clients["sqs"] = 3 /\ clients["dynamodb"] = 3

(***************************************************************************)
(* Claims about the queue construct.                                       *)
(***************************************************************************)

\* C10: QueueWithDLQ creates a dead-letter queue exactly when create_dlq is
\* true; the main queue's dead-letter setting then targets that queue with
\* the given max_receive_count, so a message is received at most that many
\* times before it is moved to the DLQ (3 for the 'messages' queue of
\* MainStack); when create_dlq is false, dead_letter_queue is None and the
\* main queue has no dead-letter setting.
C10_DlqExactlyWhenAsked ==
    qpc = "built" =>
        /\ (construct.dead_letter_queue # NoObject) <=> qargs.create_dlq
        /\ Cardinality(construct.queue) = 1
        /\ qargs.create_dlq =>
              /\ \E dlq \in construct.dead_letter_queue :
                 \E q \in construct.queue :
                    /\ q.dead_letter_queue =
                          {[max_receive_count |-> qargs.max_receive_count,
                            queue |-> dlq.queue_name]}
                    /\ dlq.queue_name # q.queue_name
              /\ \A m \in 1..MaxMessages :
                    /\ msgs[m].receives <= qargs.max_receive_count
                    /\ msgs[m].at = "dlq" =>
                          msgs[m].receives = qargs.max_receive_count
        /\ ~qargs.create_dlq =>
              /\ construct.dead_letter_queue = NoObject
              /\ \A q \in construct.queue : q.dead_letter_queue = NoObject
              /\ \A m \in 1..MaxMessages : msgs[m].at # "dlq"
        /\ qargs.name = <<"s", "a", "l", "e", "s", "f", "o", "r", "c", "e", "-", "i", "n", "t", "e", "g", "r", "a", "t", "i", "o", "n", "-", "t", "e", "s", "t", "i", "n", "g", "-", "m", "e", "s", "s", "a", "g", "e", "s">> =>
              /\ \A q \in construct.queue :
                    q.dead_letter_queue =
                       {[max_receive_count |-> 3, queue |-> <<"s", "a", "l", "e", "s", "f", "o", "r", "c", "e", "-", "i", "n", "t", "e", "g", "r", "a", "t", "i", "o", "n", "-", "t", "e", "s", "t", "i", "n", "g", "-", "m", "e", "s", "s", "a", "g", "e", "s", "-", "d", "l", "q">>]}
              /\ \A m \in 1..MaxMessages : msgs[m].receives <= 3

\* A message of the 'messages' queue of MainStack has reached the DLQ after
\* three receives.
C10_Witness ==
    /\ qpc = "built"
    /\ qargs.name = <<"s", "a", "l", "e", "s", "f", "o", "r", "c", "e", "-", "i", "n", "t", "e", "g", "r", "a", "t", "i", "o", "n", "-", "t", "e", "s", "t", "i", "n", "g", "-", "m", "e", "s", "s", "a", "g", "e", "s">>
    /\ msgs[1] = [at |-> "dlq", receives |-> 3]

\* A queue built without a DLQ keeps a message that was received more often.
C10_WitnessNoDlq ==
    /\ qpc = "built" /\ ~qargs.create_dlq
    /\ construct.dead_letter_queue = NoObject
    /\ msgs[1].receives = MaxReceiveCount + 1

(***************************************************************************)
(* Claims about the setup functions of the GitHub provisioning CLI.        *)
(***************************************************************************)

\* C11: setup_repository_access and setup_branch_protection return True if
\* the setup was successful and False otherwise: when granting access to a
\* configured team or user failed, or protecting a configured branch failed,
\* the function's result is False.
C11_ResultTellsSuccess ==
    /\ apc = "done" => aresult = Some(accessFailed = {})
    /\ (ppc = "done" /\ presult # NoObject) => presult = Some(protFailed = {})

\* C11, the half that holds: after a setup in which nothing failed the
\* result is True.
C11_TrueAfterSuccess ==
    /\ (apc = "done" /\ accessFailed = {}) => aresult = Some(TRUE)
    /\ (ppc = "done" /\ presult # NoObject /\ protFailed = {})
          => presult = Some(TRUE)

\* C11: a grant failed, a protection failed, and both functions returned.
C11_FailureSeen ==
    /\ apc = "done" /\ accessFailed # {}
    /\ ppc = "done" /\ protFailed # {}
    /\ presult = Some(TRUE) /\ aresult = Some(TRUE)

\* C12: set_repo_variables attempts every variable of the dictionary: it
\* first tries to create the variable, on a 409 conflict it updates the
\* existing variable to the given value, and an error on one variable,
\* whether raised by the create or by the update, is printed and does not
\* prevent the remaining variables from being attempted.
C12_EveryVariableAttempted ==
    vpc \in {"done", "raised"} =>
        /\ createCalled = Items(VariableNames)
        /\ updateCalled \subseteq createCalled

\* C12, the part that holds: a call that returns has tried to create every
\* variable, has updated only after the create call, and has printed every
\* error; a variable whose create or update went through holds the value
\* given.
C12_ReturnedCallAttemptedAll ==
    vpc = "done" =>
        /\ createCalled = Items(VariableNames)
        /\ updateCalled \subseteq createCalled
        /\ \A n \in Items(VariableNames) :
              n \notin printedFor => repoVars[n] = variables[n]

\* C12: the update of the first variable raised an exception that is not a
\* GithubException, and the second variable was never tried.
C12_UpdateErrorSeen ==
    vpc = "raised" /\ createCalled = {"AWS_REGION"}

\* C17: with the default --branches value and no --protection-config, every
\* branch the command created (staging, development, production, secure)
\* has branch protection applied by the setup_branch_protection step that
\* follows, when no API call of that step fails.
C17_DefaultBranchesProtected ==
    ( /\ ppc = "done" /\ presult # NoObject
      /\ defaultBranches /\ defaultProtection
      /\ protFailed = {}
      /\ skipped \cap repoBranches = {} )
    => createdBranches \subseteq protected

\* C17, the part that holds: under the same conditions every created branch
\* other than production is protected, reviews included.
C17_ConfiguredBranchesProtected ==
    ( /\ ppc = "done" /\ presult # NoObject
      /\ defaultBranches /\ defaultProtection
      /\ protFailed = {}
      /\ skipped \cap repoBranches = {} )
    => (createdBranches \ {"production"}) \subseteq (protected \cap reviewed)

\* C17: the defaults created all four branches, the protection step met no
\* error, and production was never passed to edit_protection.
C17_ProductionUnprotected ==
    /\ ppc = "done" /\ presult # NoObject
    /\ defaultBranches /\ defaultProtection
    /\ createdBranches = {"staging", "development", "production", "secure"}
    /\ protFailed = {} /\ skipped = {}
    /\ "production" \notin editCalls

\* C18: setup_branch_protection handles each configured branch on its own:
\* a configured branch that is not in the repository is skipped and no
\* protection call is made for it; an error on one branch does not keep the
\* remaining configured branches from being processed; and
\* edit_required_pull_request_reviews is called only for a branch whose
\* require_pr is true and whose edit_protection call has returned.
C18_BranchesHandledIndependently ==
    /\ (editCalls \cup reviewCalls) \subseteq repoBranches
    /\ skipped \cap editCalls = {}
    /\ reviewCalls \subseteq protected
    /\ protected \subseteq editCalls
    /\ \A i \in 1..Len(branches_config) :
          LET c == branches_config[i] IN
            /\ c.name \in reviewCalls => c.require_pr
            /\ c.name \notin repoBranches => c.name \notin editCalls
            /\ (i < pidx \/ ppc = "done") =>
                  /\ c.name \in (skipped \cup editCalls \cup protFailed)
                  /\ (c.name \in protected /\ c.require_pr)
                        => c.name \in reviewCalls
    /\ (ppc = "done" /\ presult # NoObject) => pidx = Len(branches_config) + 1

\* C18: with the default configuration, edit_protection raised for main,
\* secure was not in the repository and was skipped, and the branches after
\* them were still protected, with reviews.
C18_Witness ==
    /\ ppc = "done" /\ presult # NoObject /\ defaultProtection
    /\ "main" \in protFailed /\ "main" \notin protected
    /\ "secure" \in skipped /\ "secure" \notin repoBranches
    /\ {"staging", "development"} \subseteq reviewed

\* C18: a configured branch with require_pr false was protected without a
\* reviews call.
C18_WitnessNoReviews ==
    /\ ppc = "done" /\ "staging" \in protected /\ "staging" \notin reviewCalls

(***************************************************************************)
(* Claims about get_env_value.                                             *)
(***************************************************************************)

\* C13: get_env_value(key) resolves a key the same way the Settings model
\* resolves its fields from the process environment and the ENV_FILES .env
\* files: for every combination of a value present or absent in the
\* environment and in each of the two files, both give the same value.
C13_SameAsSettings ==
    (got # NoObject /\ resolved # NoObject) => got = resolved

\* C13, the part that holds: get_env_value returns None only when the key is
\* in none of the sources, and it agrees with Settings whenever the two
\* files do not both hold the key.
C13_NoneOnlyWhenNowhere ==
    got # NoObject =>
        /\ got = Some(None) <=>
              /\ os_environ = NoKey
              /\ \A i \in 1..2 : env_files[i] \in {NoKey, NoFile}
        /\ (resolved # NoObject
              /\ \E i \in 1..2 : env_files[i] \in {NoKey, NoFile})
              => got = resolved

\* C13: the key is absent from the environment and the two files give it
\* different values; both resolutions have run.
C13_FilesDisagree ==
    /\ os_environ = NoKey
    /\ env_files = <<"a", "b">>
    /\ got = Some("a")
    /\ resolved = Some("b")

(***************************************************************************)
(* Further claims about the OIDC role script.                              *)
(***************************************************************************)

\* C14: attach_role_policy is called only after (a) the role was created
\* and confirmed by wait_for_role, or create_role reported
\* EntityAlreadyExists, and (b) the policy ARN came from a create_policy
\* confirmed by wait_for_policy or from the lookup of the existing policy;
\* an error at any earlier step ends main() without an attach call, and
\* leaves the attachment as it was.
C14_AttachOnlyAfterRoleAndPolicy ==
    /\ (opc = "attach_role_policy" \/ attachCalls > 0) =>
          /\ roleStep \in {"confirmed", "exists"}
          /\ arnSource \in {"confirmed", "lookup"}
          /\ policy_arn = PolicyArn
          /\ roleExists /\ policyExists
    /\ opc = "attach_role_policy" => (~runFailed /\ attachCalls = 0)
    /\ attachCalls <= 1
    /\ (opc = "done" /\ attachCalls = 0) =>
          /\ runFailed
          /\ oresult \in {"returned", "raised"}
          /\ attached = startState[3]

\* C14: a first run that created and confirmed both the role and the policy
\* has made its attach call.
C14_Witness ==
    /\ oruns = 1
    /\ attachCalls = 1 /\ attached
    /\ roleStep = "confirmed" /\ arnSource = "confirmed"

\* C14: a run that ended at the lookup of the existing policy, after a role
\* that already existed, without attaching.
C14_WitnessEarlyEnd ==
    /\ opc = "done" /\ oresult = "returned"
    /\ roleStep = "exists" /\ arnSource = "none"
    /\ startState = <<TRUE, TRUE, FALSE>>
    /\ attachCalls = 0 /\ ~attached

\* C15: wait_for_policy makes at most max_attempts get_policy calls: while
\* it polls, every call so far failed with NoSuchEntity; it returns True at
\* the first call that succeeds; it returns False only after max_attempts
\* calls that all failed with NoSuchEntity; any other ClientError ends the
\* polling at the call that raised it.
C15_WaitForPolicyBounded ==
    /\ polls <= max_attempts
    /\ opc = "wait_for_policy" => attempt = polls
    /\ arnSource = "confirmed" => (polls >= 1 /\ attempt = polls - 1)
    /\ (opc = "done" /\ arnSource = "created") =>
          /\ runFailed /\ attachCalls = 0
          /\ \/ attempt = max_attempts /\ polls = max_attempts
             \/ polls >= 1 /\ attempt = polls - 1

\* C15: wait_for_policy gave up after max_attempts calls.
C15_Witness ==
    /\ opc = "done" /\ arnSource = "created"
    /\ polls = max_attempts /\ attempt = max_attempts

\* C15: wait_for_policy returned True at its last allowed call.
C15_WitnessLastCall ==
    /\ arnSource = "confirmed" /\ polls = max_attempts

\* C16: the final "All operations completed successfully!" message is
\* printed only when every step succeeded, the verification that the policy
\* is among the role's attached policies included.
C16_SuccessMessageOnlyWhenVerified ==
    oresult = "completed" => (~runFailed /\ verified = TRUE)

\* C16, the part that holds: the final message is printed only by a run in
\* which no API call failed and the attach call was made.
C16_SuccessMessageOnlyWithoutErrors ==
    oresult = "completed" => (~runFailed /\ attachCalls = 1 /\ attached)

\* C16: the verification did not find the policy and main() went on to its
\* final message.
C16_UnverifiedSuccess ==
    oresult = "completed" /\ verified = FALSE

(***************************************************************************)
(* Claims about the X-Ray configuration.                                   *)
(***************************************************************************)

\* C19: every subsegment opened by the patched handle_async_request is
\* closed exactly once, both when the wrapped transport returns a response
\* and when it raises; no subsegment stays open after the request has
\* finished.
C19_SubsegmentClosedOnce ==
    \A r \in Requests :
        xpc[r] \in {"return", "Exception"} =>
            /\ subsegment[r] # "open"
            /\ aexits[r] = 1

\* C19, the part that holds: when the request ends with an exception caught
\* by "except Exception", __aexit__ has been called exactly once and the
\* subsegment is not open.
C19_ClosedWhenRaising ==
    \A r \in Requests :
        /\ xpc[r] = "Exception" => (subsegment[r] # "open" /\ aexits[r] = 1)
        /\ aexits[r] <= 1

\* C19: a request returned its response and its subsegment is still open.
C19_OpenAfterResponse ==
    \E r \in Requests :
        xpc[r] = "return" /\ subsegment[r] = "open" /\ aexits[r] = 0

(***************************************************************************)
(* Claims about the Sentry configuration.                                  *)
(***************************************************************************)

\* C20: before_send groups all httpx errors for the same domain together:
\* for an event whose exception is an httpx.HTTPError carrying a request,
\* the event's fingerprint is set to
\* '<exception class name>-<last two labels of the request host>'.
C20_HttpxErrorsGroupedByDomain ==
    \A i \in 1..Len(sentryLog) :
        LET e == sentryLog[i].exception IN
          (e.kind = "httpx.HTTPError" /\ e.request = "Request") =>
              /\ sentryLog[i].result.status = "event"
              /\ sentryLog[i].result.fingerprint = <<HttpxFingerprint(e)>>

\* C20, the part that holds: when the url of the request is a plain string
\* the fingerprint is the class name and the last two labels of the host,
\* so two errors of one class against one domain have one fingerprint.
C20_GroupedWhenUrlIsStr ==
    \A i \in 1..Len(sentryLog) :
        LET e == sentryLog[i].exception IN
          (e.kind = "httpx.HTTPError" /\ e.request = "Request" /\ UrlIsStr(e)) =>
              /\ sentryLog[i].result.fingerprint = <<HttpxFingerprint(e)>>
              /\ e.cls = ConnectErrorName /\ e.url \in {UrlApiExample, UrlWwwExample, UrlExample}
                    => sentryLog[i].result.fingerprint = <<<<"C", "o", "n", "n", "e", "c", "t", "E", "r", "r", "o", "r", "-", "e", "x", "a", "m", "p", "l", "e", ".", "c", "o", "m">>>>

\* C20: two ConnectErrors against example.com, with requests as httpx
\* builds them, were passed to before_send and no fingerprint was set.
C20_NoFingerprintSet ==
    /\ Len(sentryLog) = 2
    /\ \A i \in 1..2 :
          /\ sentryLog[i].exception.kind = "httpx.HTTPError"
          /\ sentryLog[i].exception.cls = ConnectErrorName
          /\ sentryLog[i].exception.request = "Request"
          /\ sentryLog[i].exception.url_type = "URL"
          /\ sentryLog[i].result.fingerprint = NoFingerprint
    /\ sentryLog[1].exception.url = UrlApiExample
    /\ sentryLog[2].exception.url = UrlWwwExample

\* C21: before_send returns an event without exception information
\* unchanged; it drops an event (returns None) exactly when the exception is
\* a KicksawIntegrationError whose metadata.report_in_sentry is false; for a
\* KicksawIntegrationError that is reported, the fingerprint is replaced by
\* [sentry_fingerprint] only when a fingerprint was given and is otherwise
\* left as it was.
C21_KicksawErrorsFilteredAndGrouped ==
    \A i \in 1..Len(sentryLog) :
        LET e == sentryLog[i].exception
            r == sentryLog[i].result
        IN /\ e.kind = "none" =>
                 (r.status = "event" /\ r.fingerprint = sentryLog[i].event)
           /\ r.status = "None" <=>
                 (e.kind = "KicksawIntegrationError" /\ ~e.report_in_sentry)
           /\ (e.kind = "KicksawIntegrationError" /\ e.report_in_sentry) =>
                 /\ r.status = "event"
                 /\ r.fingerprint =
                       IF e.sentry_fingerprint # NoObject
                          THEN <<The(e.sentry_fingerprint)>>
                          ELSE sentryLog[i].event

\* C21: an unreported KicksawIntegrationError was dropped, and a reported
\* one with a fingerprint replaced the fingerprint its event carried.
C21_Witness ==
    /\ Len(sentryLog) = 2
    /\ sentryLog[1].exception.kind = "KicksawIntegrationError"
    /\ ~sentryLog[1].exception.report_in_sentry
    /\ sentryLog[1].result.status = "None"
    /\ sentryLog[2].exception.kind = "KicksawIntegrationError"
    /\ sentryLog[2].event = <<EventFingerprint>>
    /\ sentryLog[2].result.fingerprint = <<CustomFingerprint>>

\* C21: a reported KicksawIntegrationError without a fingerprint left the
\* event's own fingerprint in place.
C21_WitnessUntouched ==
    /\ Len(sentryLog) >= 1
    /\ sentryLog[1].exception.kind = "KicksawIntegrationError"
    /\ sentryLog[1].exception.report_in_sentry
    /\ sentryLog[1].exception.sentry_fingerprint = NoObject
    /\ sentryLog[1].event = <<EventFingerprint>>
    /\ sentryLog[1].result = [status |-> "event", fingerprint |-> <<EventFingerprint>>]


(***************************************************************************)
(* Claims about Settings.SENTRY_DSN and configure_sentry.                  *)
(***************************************************************************)

\* The values of the model that are blank, "null" or "none" once spaces are
\* trimmed and case is ignored.
BlankNullOrNone ==
    {<< >>, <<" ", " ">>, <<" ", "N", "U", "L", "L", " ">>, <<"n", "u", "l", "l">>,
     <<"N", "o", "n", "e">>, <<" ", "n", "O", "n", "E">>}

\* C22: Settings.SENTRY_DSN resolves in a fixed order: a value found by
\* get_env_value wins and the secret store is not consulted (a blank, "null"
\* or "none" value, case-insensitive and space-trimmed, yields None); with no
\* such value the "testing" environment yields None without any secret
\* lookup; otherwise the "dsn" key of the secret
\* "<PROJECT_SLUG>-shared-resources-sentry-dsn" is used, a null, blank,
\* "null" or "none" value yielding None.  configure_sentry initialises
\* Sentry only when the result is not None and the environment is not
\* "testing".
C22_SentryDsnResolvedInOrder ==
    LET name == dsnSettings.PROJECT_SLUG
                    \o <<"-", "s", "h", "a", "r", "e", "d", "-", "r", "e", "s", "o", "u", "r", "c", "e", "s",
                         "-", "s", "e", "n", "t", "r", "y", "-", "d", "s", "n">>
    IN
    /\ sentryDsn # NoObject =>
          LET r == The(sentryDsn)
          IN /\ dsnEnvValue # NoObject =>
                   /\ secretCalls = << >>
                   /\ r.status = "None" <=> The(dsnEnvValue) \in BlankNullOrNone
                   /\ r.status = "HttpUrl" => r.value = dsnEnvValue
             /\ (dsnEnvValue = NoObject /\ dsnSettings.ENVIRONMENT = Testing) =>
                   /\ secretCalls = << >>
                   /\ r.status = "None"
             /\ (dsnEnvValue = NoObject /\ dsnSettings.ENVIRONMENT # Testing) =>
                   /\ secretCalls # << >>
                   /\ \A i \in 1..Len(secretCalls) : secretCalls[i] = name
                   /\ (name \in DOMAIN secretStore
                          /\ "dsn" \in DOMAIN secretStore[name]) =>
                         LET dsn == secretStore[name]["dsn"]
                         IN /\ r.status = "None" <=>
                                  (dsn = NoObject \/ The(dsn) \in BlankNullOrNone)
                            /\ r.status = "HttpUrl" => r.value = dsn
    /\ \A i \in 1..Len(sentryInits) :
          /\ sentryDsn # NoObject
          /\ The(sentryDsn).status = "HttpUrl"
          /\ sentryInits[i].dsn = The(The(sentryDsn).value)
          /\ dsnSettings.ENVIRONMENT # Testing

\* C22: outside "testing", with nothing in the environment, the DSN came
\* from the secret named after the project slug and Sentry was initialised
\* with it.
C22_Witness ==
    /\ dsnEnvValue = NoObject
    /\ dsnSettings.ENVIRONMENT # Testing
    /\ dsnSettings.PROJECT_SLUG = <<"a", "c", "m", "e">>
    /\ secretCalls # << >>
    /\ Len(sentryInits) = 1
    /\ sentryInits[1].dsn = DsnUrl

\* C22: a "null" value in the environment, case and spaces aside, gave None
\* without a secret lookup although the secret holds a DSN.
C22_WitnessEnvWins ==
    /\ dsnEnvValue = Some(<<" ", "N", "U", "L", "L", " ">>)
    /\ dsnSettings.ENVIRONMENT # Testing
    /\ SentryDsnSecretName(dsnSettings.PROJECT_SLUG) \in DOMAIN secretStore
    /\ secretStore[SentryDsnSecretName(dsnSettings.PROJECT_SLUG)] = [k \in {"dsn"} |-> Some(DsnUrl)]
    /\ dsnReads = MaxDsnReads
    /\ sentryDsn = Some(ReturnsNone)
    /\ secretCalls = << >>
    /\ sentryInits = << >>

\* C22: in "testing" a DSN found in the environment is returned by the
\* property, and configure_sentry still does not initialise Sentry.
C22_WitnessTesting ==
    /\ dsnEnvValue = Some(DsnUrl)
    /\ dsnSettings.ENVIRONMENT = Testing
    /\ dsnReads = MaxDsnReads
    /\ sentryDsn = Some([status |-> "HttpUrl", value |-> Some(DsnUrl)])
    /\ sentryInits = << >>

\* C22: the secret exists but has no "dsn" key, and reading the property
\* raised (KeyError) instead of returning.
C22_WitnessNoDsnKey ==
    /\ dsnEnvValue = NoObject
    /\ SentryDsnSecretName(dsnSettings.PROJECT_SLUG) \in DOMAIN secretStore
    /\ "dsn" \notin DOMAIN secretStore[SentryDsnSecretName(dsnSettings.PROJECT_SLUG)]
    /\ sentryDsn = Some(Raises)


(***************************************************************************)
(* Claims about the client cache of Boto3Clients.                          *)
(***************************************************************************)

\* C23: between two calls of Boto3Clients.reset(), every read of a given
\* client property returns the same client object and boto3.client is
\* called at most once per service; after reset() all four cached clients
\* are cleared, the next read creates a fresh client, and reset() leaves the
\* shared config unchanged.
C23_OneClientPerServiceBetweenResets ==
    /\ \A svc \in Services :
          /\ \A i, j \in 1..Len(returned[svc]) :
                /\ returned[svc][i] = returned[svc][j]
                /\ returned[svc][i] # 0
                /\ returned[svc][i] \notin retired
          /\ Len(callsSinceReset[svc]) <= 1
          /\ \A i \in 1..Len(callsSinceReset[svc]) :
                callsSinceReset[svc][i] = [service |-> svc, config |-> sharedConfig]
          /\ returned[svc] # << >> => Len(callsSinceReset[svc]) = 1
    /\ \A svc1, svc2 \in Services :
          (svc1 # svc2 /\ returned[svc1] # << >> /\ returned[svc2] # << >>)
              => returned[svc1][1] # returned[svc2][1]
    /\ lastCall = "reset" =>
          /\ \A svc \in Services : cached[svc] = 0
          /\ sharedConfig = configBefore

\* C23: a first client was handed out, reset() ran, and the s3 property was
\* then read twice: both reads gave the one client created after the reset().
C23_Witness ==
    /\ resets = 1
    /\ Len(returned["s3"]) = 2
    /\ returned["s3"][1] = returned["s3"][2]
    /\ returned["s3"][1] = 2
    /\ retired = {1}
    /\ Len(callsSinceReset["s3"]) = 1

\* C23: reset() has just run with all four clients cached.
C23_WitnessReset ==
    /\ lastCall = "reset"
    /\ Cardinality(retired) = 4
    /\ sharedConfig.region_name = "eu-central-1"


(***************************************************************************)
(* Claims about the names and FIFO arguments of QueueWithDLQ.              *)
(***************************************************************************)

\* C24: QueueWithDLQ refuses a name that ends with ".fifo"; for an accepted
\* name the created queue's name ends with ".fifo" exactly when is_fifo is
\* true, the dead-letter queue (when created) is FIFO exactly when the main
\* queue is and is named "<name>-dlq.fifo" or "<name>-dlq" accordingly, and
\* the fifo and content_based_deduplication arguments are passed to the
\* queues only when is_fifo is true.
C24_FifoNamingConsistent ==
    LET dotfifo == <<".", "f", "i", "f", "o">>
        passed(q) == {kv[1] : kv \in q.fifo_params}
    IN
    /\ qpc = "refused" => EndsWith(qargs.name, dotfifo)
    /\ qpc = "built" =>
          /\ ~EndsWith(qargs.name, dotfifo)
          /\ \A q \in construct.queue :
                /\ EndsWith(q.queue_name, dotfifo) <=> qargs.is_fifo
                /\ q.queue_name = IF qargs.is_fifo THEN qargs.name \o dotfifo
                                                   ELSE qargs.name
                /\ passed(q) = IF qargs.is_fifo
                                  THEN {"fifo", "content_based_deduplication"}
                                  ELSE {}
                /\ <<"fifo", FALSE>> \notin q.fifo_params
                /\ qargs.is_fifo =>
                      <<"content_based_deduplication",
                        qargs.content_based_deduplication>> \in q.fifo_params
                /\ \A dlq \in construct.dead_letter_queue :
                      /\ EndsWith(dlq.queue_name, dotfifo) <=> qargs.is_fifo
                      /\ dlq.queue_name =
                            IF qargs.is_fifo
                               THEN qargs.name \o <<"-", "d", "l", "q">> \o dotfifo
                               ELSE qargs.name \o <<"-", "d", "l", "q">>
                      /\ dlq.fifo_params = q.fifo_params

\* C24: a FIFO queue named "fifo" was built with its dead-letter queue.
C24_Witness ==
    /\ qpc = "built"
    /\ qargs.name = <<"f", "i", "f", "o">>
    /\ qargs.is_fifo /\ qargs.create_dlq /\ qargs.content_based_deduplication
    /\ The(construct.queue).queue_name = <<"f", "i", "f", "o", ".", "f", "i", "f", "o">>
    /\ The(construct.dead_letter_queue).queue_name =
          <<"f", "i", "f", "o", "-", "d", "l", "q", ".", "f", "i", "f", "o">>

\* C24: the name "q.fifo" was refused.
C24_WitnessRefused ==
    /\ qpc = "refused"
    /\ qargs.name = <<"q", ".", "f", "i", "f", "o">>
    /\ construct = NoConstruct

\* C24: a standard queue was built with a dead-letter queue and no FIFO
\* arguments.
C24_WitnessStandard ==
    /\ qpc = "built"
    /\ ~qargs.is_fifo /\ qargs.create_dlq /\ qargs.content_based_deduplication
    /\ The(construct.queue).fifo_params = {}
    /\ The(construct.dead_letter_queue).fifo_params = {}


(***************************************************************************)
(* Claims about a failing record write in the handler's finally block.     *)
(***************************************************************************)

\* C25: when the body of async_handler fails and the execution-record write
\* execution.create_all() then fails too, the exception that reaches the
\* handler's caller is still the body's original failure; a failure of the
\* record write does not replace or hide it.
C25_BodyFailureReachesCaller ==
    (hpc \in {"exit", "closed"} /\ bodyErrs > 0 /\ pendingExc = "body"
        /\ task = "failed" /\ cancels = 0)
        => outcome = "body"

\* C25, what the code does instead: with the body failed and the write
\* failed, the exception leaving the handler is the one create_all() raised.
C25_WriteFailureReachesCaller ==
    (hpc \in {"exit", "closed"} /\ bodyErrs > 0 /\ task = "failed"
        /\ cancels = 0)
        => outcome = "write"

\* C25: the body failed, the write failed, and the write's exception left
\* the handler.
C25_WriteFailureSeen ==
    /\ hpc = "closed"
    /\ bodyErrs = 1
    /\ pendingExc = "body"
    /\ task = "failed"
    /\ outcome = "write"


(***************************************************************************)
(* Claims about the resource names of the settings and of MainStack.       *)
(***************************************************************************)

\* C26: for every resolved settings object, the queue name in
\* settings.SQS_QUEUE_MESSAGES is the name of the "messages" queue that
\* MainStack declares, and the bucket name in settings.S3_BUCKET_STORAGE is
\* the name of the "storage" bucket that MainStack declares.
C26_SettingsNamesAreStackNames ==
    \A d \in declared :
        /\ d.queue = data.SQS_QUEUE_MESSAGES
        /\ d.bucket = data.S3_BUCKET_STORAGE

\* C26, the part that holds: the bucket names always agree, and the queue
\* names agree whenever SQS_QUEUE_MESSAGES was left to be derived.
C26_NamesAgreeWhenQueueDerived ==
    \A d \in declared :
        /\ d.bucket = data.S3_BUCKET_STORAGE
        /\ environ.SQS_QUEUE_MESSAGES \in {Unset, Changeme}
              => d.queue = data.SQS_QUEUE_MESSAGES

\* C26: SQS_QUEUE_MESSAGES was supplied as "jobs" and MainStack declared the
\* queue under the derived name.
C26_SuppliedQueueNameDiffers ==
    /\ declared # NoObject
    /\ environ.SQS_QUEUE_MESSAGES = <<"j", "o", "b", "s">>
    /\ data.SQS_QUEUE_MESSAGES = <<"j", "o", "b", "s">>
    /\ data.PROJECT_SLUG = DefaultProjectSlug
    /\ data.AWS_RESOURCE_SUFFIX = <<"s", "t", "a", "g", "i", "n", "g">>
    /\ The(declared).queue = <<"s", "a", "l", "e", "s", "f", "o", "r", "c", "e", "-", "i", "n", "t", "e", "g", "r", "a", "t", "i", "o", "n", "-", "s", "t", "a", "g", "i", "n", "g", "-", "m", "e", "s", "s", "a", "g", "e", "s">>

====
